---- MODULE Spec2Model ----
(***************************************************************************)
(* GameTunnel (imslyth/GameTunnel): the envelope codec, the relay server   *)
(* (session registry, idle reaper, destination connection cache) and the   *)
(* client forwarding loops, as a state machine.                            *)
(*                                                                         *)
(* Bytes are the integers 0..255, byte strings are sequences of bytes,     *)
(* Python str values are sequences of code points, an address is the       *)
(* record [host, port].                                                    *)
(***************************************************************************)
EXTENDS Integers, Sequences, FiniteSets, TLC

\* ------------------------------------------------------------------------
\* Generic helpers (no program counterpart).
\* ------------------------------------------------------------------------
Min(a, b) == IF a <= b THEN a ELSE b

Range(s) == {s[i] : i \in DOMAIN s}

\* Python's s[a:b] for 0 <= a <= b: a slice past the end is cut short,
\* never an error.
Slice(s, a, b) == SubSeq(s, a + 1, Min(b, Len(s)))

\* A dict with no keys; dicts are functions, d[k] = v is MapPut, del d[k] is
\* MapDel.
EmptyMap == [k \in {} |-> 0]

MapPut(f, k, v) == [x \in DOMAIN f \cup {k} |-> IF x = k THEN v ELSE f[x]]

MapDel(f, k) == [x \in DOMAIN f \ {k} |-> f[x]]

\* All sequences over S of length 0..n.
SeqsUpTo(S, n) == UNION {[1..k -> S] : k \in 0..n}

\* ------------------------------------------------------------------------
\* struct.pack / struct.unpack with format "!I": 4 bytes, big-endian.
\* ------------------------------------------------------------------------
PackU32LittleEndian(n) ==
    << n % 256, (n \div 256) % 256, (n \div 65536) % 256, (n \div 16777216) % 256 >>

PackU32(n) ==
    << (n \div 16777216) % 256, (n \div 65536) % 256, (n \div 256) % 256, n % 256 >>

\* struct.unpack("!I", b) raises struct.error unless len(b) = 4.
UnpackOk(b) == Len(b) = 4

\* The value is only ever used as a slice length or an offset into a buffer
\* far shorter than 2^24 bytes, where every value from 2^24 up acts alike;
\* such values are read as 2^24, which keeps the arithmetic within TLC's
\* integers.
UnpackU32(b) == IF b[1] > 0 THEN 16777216 ELSE b[2] * 65536 + b[3] * 256 + b[4]

\* ------------------------------------------------------------------------
\* str.encode('utf-8') and bytes.decode('utf-8') (strict).
\* ------------------------------------------------------------------------
IsCont(b) == b >= 128 /\ b <= 191

Utf8EncodeCp(cp) ==
    IF cp < 128 THEN << cp >>
    ELSE IF cp < 2048 THEN << 192 + (cp \div 64), 128 + (cp % 64) >>
    ELSE IF cp < 65536
         THEN << 224 + (cp \div 4096), 128 + ((cp \div 64) % 64), 128 + (cp % 64) >>
    ELSE << 240 + (cp \div 262144), 128 + ((cp \div 4096) % 64),
            128 + ((cp \div 64) % 64), 128 + (cp % 64) >>

RECURSIVE Utf8Encode(_)
Utf8Encode(s) ==
    IF s = << >> THEN << >> ELSE Utf8EncodeCp(Head(s)) \o Utf8Encode(Tail(s))

\* Length of the well-formed UTF-8 sequence starting at b[i], 0 when the
\* bytes there are not one (overlong forms, surrogates, values above
\* U+10FFFF, stray continuation bytes and truncated sequences are errors).
Utf8SeqLen(b, i) ==
    LET n  == Len(b)
        b0 == b[i]
        b1 == IF i + 1 <= n THEN b[i + 1] ELSE 0
        b2 == IF i + 2 <= n THEN b[i + 2] ELSE 0
        b3 == IF i + 3 <= n THEN b[i + 3] ELSE 0
    IN  IF b0 < 128 THEN 1
        ELSE IF b0 >= 194 /\ b0 <= 223
             THEN (IF IsCont(b1) THEN 2 ELSE 0)
        ELSE IF b0 >= 224 /\ b0 <= 239
             THEN (IF /\ IsCont(b1) /\ IsCont(b2)
                      /\ (b0 = 224 => b1 >= 160)
                      /\ (b0 = 237 => b1 <= 159)
                   THEN 3 ELSE 0)
        ELSE IF b0 >= 240 /\ b0 <= 244
             THEN (IF /\ IsCont(b1) /\ IsCont(b2) /\ IsCont(b3)
                      /\ (b0 = 240 => b1 >= 144)
                      /\ (b0 = 244 => b1 <= 143)
                   THEN 4 ELSE 0)
        ELSE 0

Utf8CpAt(b, i, k) ==
    IF k = 1 THEN b[i]
    ELSE IF k = 2 THEN (b[i] - 192) * 64 + (b[i + 1] - 128)
    ELSE IF k = 3 THEN (b[i] - 224) * 4096 + (b[i + 1] - 128) * 64 + (b[i + 2] - 128)
    ELSE (b[i] - 240) * 262144 + (b[i + 1] - 128) * 4096
         + (b[i + 2] - 128) * 64 + (b[i + 3] - 128)

RECURSIVE Utf8ValidFrom(_, _)
Utf8ValidFrom(b, i) ==
    IF i > Len(b) THEN TRUE
    ELSE LET k == Utf8SeqLen(b, i)
         IN  IF k = 0 THEN FALSE ELSE Utf8ValidFrom(b, i + k)

\* bytes.decode('utf-8') raises UnicodeDecodeError unless Utf8Valid.
Utf8Valid(b) == Utf8ValidFrom(b, 1)

RECURSIVE Utf8DecodeFrom(_, _)
Utf8DecodeFrom(b, i) ==
    IF i > Len(b) THEN << >>
    ELSE LET k == Utf8SeqLen(b, i)
         IN  << Utf8CpAt(b, i, k) >> \o Utf8DecodeFrom(b, i + k)

Utf8Decode(b) == Utf8DecodeFrom(b, 1)

\* ------------------------------------------------------------------------
\* str(int) inside the f-string, str.split(':') and int(str).
\* ------------------------------------------------------------------------
Colon == 58

RECURSIVE StrOfNat(_)
StrOfNat(n) ==
    IF n < 10 THEN << 48 + n >> ELSE StrOfNat(n \div 10) \o << 48 + (n % 10) >>

StrOfInt(n) == IF n < 0 THEN << 45 >> \o StrOfNat(0 - n) ELSE StrOfNat(n)

\* f"{addr[0]}:{addr[1]}"
FormatAddr(addr) == addr.host \o << Colon >> \o StrOfInt(addr.port)

ColonCount(s) == Cardinality({i \in DOMAIN s : s[i] = Colon})

FirstColon(s) == CHOOSE i \in DOMAIN s : s[i] = Colon /\ \A j \in 1..(i - 1) : s[j] # Colon

\* The code points str.strip() removes (str.isspace).
PyWhitespace ==
    {9, 10, 11, 12, 13, 28, 29, 30, 31, 32, 133, 160, 5760, 8232, 8233, 8239, 8287, 12288}
    \cup (8192..8202)

IsDigit(c) == c >= 48 /\ c <= 57

RECURSIVE LStrip(_)
LStrip(s) == IF s # << >> /\ Head(s) \in PyWhitespace THEN LStrip(Tail(s)) ELSE s

RECURSIVE RStrip(_)
RStrip(s) ==
    IF s # << >> /\ s[Len(s)] \in PyWhitespace THEN RStrip(SubSeq(s, 1, Len(s) - 1)) ELSE s

\* Digits with single underscores between them: "1", "1_0", never "_1",
\* "1_" or "1__0".
DigitsOk(d) ==
    /\ d # << >>
    /\ \A i \in DOMAIN d : IsDigit(d[i]) \/ d[i] = 95
    /\ IsDigit(d[1]) /\ IsDigit(d[Len(d)])
    /\ \A i \in 1..(Len(d) - 1) : ~(d[i] = 95 /\ d[i + 1] = 95)

RECURSIVE DigitsVal(_)
DigitsVal(d) ==
    IF d = << >> THEN 0
    ELSE LET c    == d[Len(d)]
             rest == SubSeq(d, 1, Len(d) - 1)
         IN  IF c = 95 THEN DigitsVal(rest) ELSE DigitsVal(rest) * 10 + (c - 48)

\* int(s) for a str s of code points below U+0660 (below it the only
\* decimal digits are ASCII): surrounding whitespace is stripped, one sign
\* is allowed, then DigitsOk.  ok = FALSE stands for ValueError.
IntParse(s) ==
    LET t      == RStrip(LStrip(s))
        signed == t # << >> /\ t[1] \in {43, 45}
        d      == IF signed THEN Tail(t) ELSE t
    IN  IF DigitsOk(d)
        THEN [ok |-> TRUE,
              val |-> IF signed /\ t[1] = 45 THEN 0 - DigitsVal(d) ELSE DigitsVal(d)]
        ELSE [ok |-> FALSE, val |-> 0]

\* ------------------------------------------------------------------------
\* The envelope codec.
\* ------------------------------------------------------------------------
NoAddr == [host |-> << >>, port |-> 0]

\* (None, None)
ParseFail == [ok |-> FALSE, data |-> << >>, addr |-> NoAddr]

\* struct.pack(f"!I{addr_len}sI{data_len}s", addr_len, addr_bytes, data_len, data)
PackEnvelope(addr_bytes, data) ==
    PackU32(Len(addr_bytes)) \o addr_bytes \o PackU32(Len(data)) \o data

\* The body of the try block of _parse_tunnel_packet; each failing step is
\* an exception there and ParseFail here.
ParseEnvelope(packet) ==
    LET lenField == Slice(packet, 0, 4)
    IN  IF ~UnpackOk(lenField) THEN ParseFail
        ELSE
        LET addr_len   == UnpackU32(lenField)
            addr_bytes == Slice(packet, 4, 4 + addr_len)
        IN  IF ~Utf8Valid(addr_bytes) THEN ParseFail
            ELSE
            LET addr_str == Utf8Decode(addr_bytes)
            IN  IF ColonCount(addr_str) # 1 THEN ParseFail
                ELSE
                LET k       == FirstColon(addr_str)
                    host    == SubSeq(addr_str, 1, k - 1)
                    port    == IntParse(SubSeq(addr_str, k + 1, Len(addr_str)))
                    offset  == 4 + addr_len
                    dlField == Slice(packet, offset, offset + 4)
                IN  IF ~port.ok \/ ~UnpackOk(dlField) THEN ParseFail
                    ELSE [ok   |-> TRUE,
                          data |-> Slice(packet, offset + 4,
                                         offset + 4 + UnpackU32(dlField)),
                          addr |-> [host |-> host, port |-> port.val]]

Client_create_tunnel_packet(data, addr) == PackEnvelope(Utf8Encode(FormatAddr(addr)), data)

Client_parse_tunnel_packet(packet) == ParseEnvelope(packet)

Server_create_tunnel_packet(data, addr) == PackEnvelope(Utf8Encode(FormatAddr(addr)), data)

Server_parse_dropping_last(packet) == ParseEnvelope(Slice(packet, 0, Len(packet) - 1))

Server_parse_tunnel_packet(packet) == ParseEnvelope(packet)

\* A test that takes every parse result, a failed one too, for a packet.
NeverFalsy(res) == FALSE

\* Python truthiness of the parse result's halves: "not game_data" holds for
\* None and for b"", "not target_addr" only for None.
Falsy(res) == ~res.ok \/ res.data = << >>

\* ------------------------------------------------------------------------
\* State.
\* ------------------------------------------------------------------------
VARIABLES
    cx,         \* one codec call chain: inputs, encoded packet, decode result
    started,    \* TunnelServer.server is listening (start() was called)
    running,    \* TunnelServer.running
    clients,    \* TunnelServer.clients: client_id -> ClientConnection (its index in conn)
    conn,       \* every stream connection made to the relay, with its session task
    pools,      \* TunnelServer.game_server_pools: "host:port" -> set of sockets
    socks,      \* every outbound socket the relay created, with the peer's state
    now,        \* time.time()
    tc,         \* the tunnel client (client/main.py) and its local applications
    proc        \* the process started by src/main.py: mode, state, exit status

codecVars == << cx >>

serverVars == << started, running, clients, conn, pools, socks, now >>

vars == << cx, started, running, clients, conn, pools, socks, now, tc, proc >>

\* ------------------------------------------------------------------------
\* The codec on its own: encode, what the wire or a peer may do to the
\* buffer, decode.
\* ------------------------------------------------------------------------
MaxPayload == 2

MaxHost == 2

PayloadBytes == {0, 255}

\* 'h', '.', U+00E9: host names and dotted quads hold no ':' (the sockets
\* are AF_INET, whose addresses are (host, port) pairs).
HostChars == {104, 46, 233}

Ports == {0, 80, 65535}

CodecPayloads == SeqsUpTo(PayloadBytes, MaxPayload)

CodecHosts == SeqsUpTo(HostChars, MaxHost) \ {<< >>}

CodecAddrs == [host : CodecHosts, port : Ports]

\* Address segments a peer may put on the wire: not UTF-8 (0xFF, a cut
\* two-byte sequence, an overlong form), no ':', two ':', a port that int()
\* refuses, and ports int() accepts although str(int) never prints them.
BadAddrSegs ==
    { << 255 >>, << 104, 58, 195 >>, << 192, 175, 58, 49 >>,
      << 104, 49 >>, << 104, 58, 49, 58, 50 >>,
      << 104, 58, 120 >>, << 104, 58 >>, << 104, 58, 95, 49 >>, << 104, 58, 49, 46, 48 >>,
      << 104, 58, 32, 55 >>, << 104, 58, 43, 55 >>, << 104, 58, 48, 55 >>,
      << 104, 58, 49, 95, 48 >> }

\* b"invalid packet data" (tests/test_gametunnel.py) and shorter garbage.
RawBuffers ==
    { << 105, 110, 118, 97, 108, 105, 100, 32, 112, 97, 99, 107, 101, 116,
         32, 100, 97, 116, 97 >>,
      << >>, << 0, 0, 0 >>, << 0, 0, 0, 0 >>, << 0, 0, 0, 0, 0, 0, 0, 0 >> }

Tampered(packet, data) ==
    {SubSeq(packet, 1, k) : k \in 0..(Len(packet) - 1)}
    \cup {PackEnvelope(seg, data) : seg \in BadAddrSegs}
    \cup {packet \o << b >> : b \in PayloadBytes}
    \cup RawBuffers

CodecSides == {"client", "server"}

CodecInputs ==
    cx \in [phase : {"input"}, data : CodecPayloads, addr : CodecAddrs,
            packet : {<< >>}, tampered : {FALSE}, enc : {"none"}, dec : {"none"},
            out : {ParseFail}]

\* The server as constructed by TunnelServer.__init__.
ServerConstructed ==
    /\ started = FALSE
    /\ running = FALSE
    /\ clients = EmptyMap
    /\ conn = << >>
    /\ pools = EmptyMap
    /\ socks = << >>
    /\ now = 0

\* The client as constructed by TunnelClient.__init__, with the fields the
\* model follows: running, connected, tunnel_socket (link: the index of its
\* connection, 0 for None), the datagrams waiting at local_socket (localq),
\* the positions of the three traffic tasks; sent and delivered record what
\* local applications sent and what local_socket.sendto was called with.
\* No tunnel_socket.send call is in an executor thread. writes[w] is the
\* call made by loop w: busy while the thread is inside send, rest the bytes
\* of its argument the kernel has not taken yet.
NoWrites == [w \in {"local", "monitor"} |-> [busy |-> FALSE, rest |-> << >>]]

\* servers is the catalog (a ServerInfo's latency is a fraction of
\* milliseconds) and current_server the index of the chosen entry, 0 for
\* None. switches counts the switch_server calls; dials[d] is the state of
\* the connect that call d awaits ("dialing", "closed" once a later call
\* closed its socket, "done" once the call returned), and dialing is the
\* call whose still unconnected socket is tunnel_socket, 0 if none.
ClientConstructed ==
    tc = [phase |-> "init", running |-> FALSE, connected |-> FALSE, link |-> 0,
          localq |-> << >>, local |-> "wait", tunnel |-> "wait", monitor |-> "wait",
          sends |-> 0, beats |-> 0, splits |-> 0, sent |-> {}, delivered |-> {},
          servers |-> << >>, current_server |-> 0, switches |-> 0, dialing |-> 0, dials |-> << >>,
          writes |-> NoWrites]

\* No process of src/main.py is running: the classes are used as a library.
\* code is the exit status, -1 while there is none; error is set when
\* TunnelServer.start raised.
\* cli is the command line of run_client and what it made of it: nothing
\* outside the run_client specification.
NoCli == [phase |-> "none", servers |-> << >>, server_host |-> 0, server_port |-> 0,
          current |-> 0, endpoint |-> [host |-> 0, port |-> 0]]

ProcNone == proc = [mode |-> "library", state |-> "running", code |-> -1, error |-> FALSE,
                    cli |-> NoCli]

CodecIdle == cx = [phase |-> "idle", data |-> << >>, addr |-> NoAddr, packet |-> << >>,
                   tampered |-> FALSE, enc |-> "none", dec |-> "none", out |-> ParseFail]

CodecEncode(side) ==
    /\ cx.phase = "input"
    /\ cx' = [cx EXCEPT !.phase = "encoded", !.enc = side,
                        !.packet = IF side = "client"
                                   THEN Client_create_tunnel_packet(cx.data, cx.addr)
                                   ELSE Server_create_tunnel_packet(cx.data, cx.addr)]
    /\ UNCHANGED << serverVars, tc, proc >>

CodecTamper ==
    /\ cx.phase = "encoded"
    /\ \E p \in Tampered(cx.packet, cx.data) :
          cx' = [cx EXCEPT !.phase = "tampered", !.tampered = TRUE, !.packet = p]
    /\ UNCHANGED << serverVars, tc, proc >>

CodecDecode(side) ==
    /\ cx.phase \in {"encoded", "tampered"}
    /\ cx' = [cx EXCEPT !.phase = "decoded", !.dec = side,
                        !.out = IF side = "client"
                                THEN Client_parse_tunnel_packet(cx.packet)
                                ELSE Server_parse_tunnel_packet(cx.packet)]
    /\ UNCHANGED << serverVars, tc, proc >>

CodecNext ==
    \/ \E side \in CodecSides : CodecEncode(side)
    \/ CodecTamper
    \/ \E side \in CodecSides : CodecDecode(side)

CodecInit == CodecInputs /\ ServerConstructed /\ ClientConstructed /\ ProcNone

SpecCodec == CodecInit /\ [][CodecNext]_vars

\* ------------------------------------------------------------------------
\* Claims about the codec.
\* ------------------------------------------------------------------------

\* C1: decoding the envelope produced by encoding (payload, addr) returns
\* exactly (payload, addr), whichever of the client and server codecs
\* encodes and whichever decodes.
C1_RoundTrip ==
    (cx.phase = "decoded" /\ ~cx.tampered)
        => (cx.out.ok /\ cx.out.data = cx.data /\ cx.out.addr = cx.addr)

C1_Witness ==
    /\ cx.phase = "decoded" /\ ~cx.tampered
    /\ cx.enc = "client" /\ cx.dec = "server"
    /\ Len(cx.data) = MaxPayload
    /\ 233 \in Range(cx.addr.host) /\ cx.addr.port = 65535

\* What C2 calls malformed, read off the buffer alone: a missing or cut
\* length field, fewer bytes than a declared length, an address segment
\* that is not UTF-8, is not host:port, or whose port int() refuses.
Malformed(b) ==
    \/ Len(b) < 4
    \/ LET al == UnpackU32(SubSeq(b, 1, 4))
       IN  \/ Len(b) < 4 + al + 4
           \/ LET seg == SubSeq(b, 5, 4 + al)
                  dl  == UnpackU32(SubSeq(b, 5 + al, 8 + al))
              IN  \/ ~Utf8Valid(seg)
                  \/ ColonCount(Utf8Decode(seg)) # 1
                  \/ LET str == Utf8Decode(seg)
                         k   == FirstColon(str)
                     IN  ~IntParse(SubSeq(str, k + 1, Len(str))).ok
                  \/ Len(b) < 8 + al + dl

\* C2: decode of a buffer that is shorter than a declared length, or whose
\* address segment is not UTF-8, not host:port, or has a non-numeric port,
\* returns (None, None): never a partial payload.
C2_MalformedRejected ==
    (cx.phase = "decoded" /\ Malformed(cx.packet)) => cx.out = ParseFail

\* The number a 4-byte big-endian field holds.
BigEndian(b) == ((b[1] * 256 + b[2]) * 256 + b[3]) * 256 + b[4]

\* C16: the encoded envelope is u32 addrLen (big-endian), the UTF-8 bytes
\* of "host:port", u32 dataLen (big-endian), the payload; addrLen and
\* dataLen count the address bytes and the payload bytes; the client's and
\* the server's encoder give the same bytes.
C16_WireFormat ==
    cx.phase = "encoded" =>
        LET seg == Utf8Encode(cx.addr.host \o << Colon >> \o StrOfInt(cx.addr.port))
            al  == Len(seg)
            dl  == Len(cx.data)
        IN  /\ Len(cx.packet) = 8 + al + dl
            /\ BigEndian(SubSeq(cx.packet, 1, 4)) = al
            /\ SubSeq(cx.packet, 5, 4 + al) = seg
            /\ BigEndian(SubSeq(cx.packet, 5 + al, 8 + al)) = dl
            /\ SubSeq(cx.packet, 9 + al, 8 + al + dl) = cx.data
            /\ Client_create_tunnel_packet(cx.data, cx.addr)
                  = Server_create_tunnel_packet(cx.data, cx.addr)

C16_Witness ==
    /\ cx.phase = "encoded" /\ cx.enc = "server"
    /\ Len(cx.data) = MaxPayload
    /\ 233 \in Range(cx.addr.host)
    /\ Len(cx.packet) = 8 + Len(cx.addr.host) + 1 + Len(StrOfInt(cx.addr.port)) + 1 + MaxPayload

\* ------------------------------------------------------------------------
\* The relay server (server/main.py).
\* ------------------------------------------------------------------------
MaxAccepts == 3         \* connections made to the relay in one run

MaxSocks == 2           \* outbound sockets the relay creates in one run

TickLen == 300          \* seconds between two observations of the clock

MaxTime == 600          \* the clock stops here

MaxPend == 1            \* requests a destination holds unanswered; more are ignored

MaxZombies == 1         \* threads left blocked in recv on one socket

max_connections == 2    \* config server.max_connections

buffer_size == 65536    \* config server.buffer_size

timeout == 300          \* idle threshold of _cleanup_inactive_clients

HEARTBEAT == << 72, 69, 65, 82, 84, 66, 69, 65, 84 >>

HEARTBEAT_ACK == HEARTBEAT \o << 95, 65, 67, 75 >>

NoPkt == [data |-> << >>, addr |-> NoAddr]

\* A stream connection to the relay: the ClientConnection fields the code
\* uses, the session task's position (pc), and the byte streams.
\*   peer     the peer's address (host and port, as a number); a connection
\*            gets an address of its own unless a peer chooses to connect
\*            from the address of a connection it has closed
\*   pc       pending: established, _handle_client_connection not yet run;
\*            read: awaiting reader.read; connect / recv: inside
\*            _forward_to_game_server, awaiting connect / the reply;
\*            done: _handle_client returned; rejected: closed at capacity
\*   inq      bytes that arrived from the peer and were not read yet
\*   eof      the peer closed its end
\*   flight, out, rxq   (tunnel client's link only) bytes the client wrote
\*            that are still in flight, bytes the relay wrote that are still
\*            in flight, bytes that arrived at the client unread
\*   reaped   the idle sweep removed the session from the registry
NewConn(kind, peer) ==
    [kind |-> kind, peer |-> peer, pc |-> "pending", socket |-> "None",
     connected_time |-> 0, last_activity |-> 0, wclosed |-> FALSE,
     inq |-> << >>, eof |-> FALSE, flight |-> << >>, out |-> << >>, rxq |-> << >>,
     pkt |-> NoPkt, gsock |-> 0, poolAlive |-> FALSE, reaped |-> FALSE]

\* An outbound socket of the relay.
\*   st       connecting, open, halfclosed (the destination sent FIN),
\*            reset (the destination reset the connection), closed (close()
\*            was called here), failed (connect raised)
\*   closes   number of close() calls on it
\*   pend     requests the destination received and has not answered
\*   rx       reply bytes that arrived and were not read yet
\*   zombies  executor threads still blocked in recv after their
\*            asyncio.wait_for timed out
NewSock(key) ==
    [key |-> key, st |-> "connecting", closes |-> 0, pend |-> << >>, rx |-> << >>,
     zombies |-> 0]

\* client_id = f"{client_address[0]}:{client_address[1]}:{time.time()}": the
\* peer's address and the time of the accept.
client_id(cn, c) == << cn[c].peer, cn[c].connected_time >>

AtCapacityLoose(n) == n > max_connections

\* len(self.clients) >= self.max_connections
AtCapacity(n) == n >= max_connections

InactiveAtThreshold(current_time, last_activity) == current_time - last_activity >= timeout

\* current_time - client.last_activity > timeout
Inactive(current_time, last_activity) == current_time - last_activity > timeout

\* sock.getpeername() returns (no OSError)
PeerNameOk(sk) == sk.st \in {"open", "halfclosed"}

\* The send to the writer: the bytes are kept only on the tunnel client's
\* link, where the model follows them; any other peer reads them at once.
WriterWrite(cn, c, bytes) ==
    IF cn[c].kind = "tunnel" THEN [cn EXCEPT ![c].out = @ \o bytes] ELSE cn

\* _disconnect_client, its effect on the connection: client.socket.close()
\* closes the connection when socket is a socket; on None it raises
\* AttributeError, which the except clause swallows.
DisconnectConn(cn, cl, id) ==
    IF id \in DOMAIN cl
    THEN LET c == cl[id]
         IN  IF cn[c].socket # "None" THEN [cn EXCEPT ![c].wclosed = TRUE] ELSE cn
    ELSE cn

\* A removal that leaves the entry in place.
DisconnectRegKeeps(cl, id) == cl

\* A removal that is not idempotent: removing an absent id empties the
\* registry.
DisconnectRegClears(cl, id) == IF id \in DOMAIN cl THEN MapDel(cl, id) ELSE EmptyMap

\* _disconnect_client, its effect on the registry: del self.clients[id].
DisconnectReg(cl, id) == IF id \in DOMAIN cl THEN MapDel(cl, id) ELSE cl

\* The end of one iteration of _handle_client's loop: the loop condition
\* "self.running and client_id in self.clients", and the finally clause
\* when it fails.
LoopBack(c, cn, cl) ==
    LET id == client_id(cn, c)
    IN  IF running /\ id \in DOMAIN cl
        THEN /\ conn' = [cn EXCEPT ![c].pc = "read", ![c].pkt = NoPkt, ![c].gsock = 0,
                                   ![c].poolAlive = FALSE]
             /\ clients' = cl
        ELSE /\ conn' = [DisconnectConn(cn, cl, id) EXCEPT
                            ![c].pc = "done", ![c].pkt = NoPkt, ![c].gsock = 0,
                            ![c].poolAlive = FALSE]
             /\ clients' = DisconnectReg(cl, id)

\* TunnelServer.start: running = True, then the listening server.
ServerStart ==
    /\ ~started
    /\ started' = TRUE
    /\ running' = TRUE
    /\ UNCHANGED << cx, proc, tc, clients, conn, pools, socks, now >>

\* TunnelServer.start when asyncio.start_server raises (the address is in
\* use, or may not be bound): running was set, the exception is logged and
\* raised again.
ServerStartFail ==
    /\ ~started /\ ~proc.error
    /\ running' = TRUE
    /\ proc' = [proc EXCEPT !.error = TRUE]
    /\ UNCHANGED << cx, tc, started, clients, conn, pools, socks, now >>

\* A peer other than the tunnel client connects.
PeerConnect ==
    /\ started
    /\ Len(conn) < MaxAccepts
    /\ conn' = Append(conn, NewConn("peer", Len(conn) + 1))
    /\ UNCHANGED << cx, proc, tc, started, running, clients, pools, socks, now >>

\* A peer that closed connection c connects again from the same host and
\* port (a socket bound to a fixed source port).
PeerReconnect(c) ==
    /\ started
    /\ Len(conn) < MaxAccepts
    /\ conn[c].kind = "peer" /\ conn[c].eof
    /\ \A d \in DOMAIN conn : conn[d].peer = conn[c].peer => conn[d].eof
    /\ conn' = Append(conn, NewConn("peer", conn[c].peer))
    /\ UNCHANGED << cx, proc, tc, started, running, clients, pools, socks, now >>

\* _handle_client_connection, up to the first read of _handle_client.
HandleClientConnection(c) ==
    /\ started
    /\ conn[c].pc = "pending"
    /\ IF AtCapacity(Cardinality(DOMAIN clients))
       THEN /\ conn' = [conn EXCEPT ![c].pc = "rejected", ![c].wclosed = TRUE]
            /\ UNCHANGED clients
       ELSE LET cn1 == [conn EXCEPT ![c].connected_time = now, ![c].last_activity = now]
            IN  LoopBack(c, cn1, MapPut(clients, client_id(cn1, c), c))
    /\ UNCHANGED << cx, proc, tc, started, running, pools, socks, now >>

\* _get_game_server_connection, the loop over list(pool): the sockets are
\* tried in the set's iteration order, which the program does not fix.  The
\* first one whose getpeername() succeeds is returned (hit); every socket
\* tried before it failed the check and is discarded and closed (evict).
\* hit = 0: no socket passed, all were evicted.
ScanPool(pool, sks) ==
    LET live == {g \in pool : PeerNameOk(sks[g])}
        dead == pool \ live
    IN  IF live = {}
        THEN {[hit |-> 0, evict |-> dead]}
        ELSE {[hit |-> g, evict |-> E] : g \in live, E \in SUBSET dead}

\* pool.discard(sock); sock.close() for each evicted socket.
CloseAll(sks, E) ==
    [g \in DOMAIN sks |->
        IF g \in E THEN [sks[g] EXCEPT !.st = "closed", !.closes = @ + 1, !.rx = << >>,
                                       !.pend = << >>]
        ELSE sks[g]]

\* game_socket.send(data) followed by the wait for game_socket.recv, in
\* _forward_to_game_server: the destination receives the request when the
\* socket is open; a half-closed peer discards it; on a dead socket send
\* raises and the forward returns None.
SendRequest(c, cn, cl, sks, g, pkt) ==
    IF sks[g].st \in {"open", "halfclosed"}
    THEN /\ socks' = IF sks[g].st = "open" /\ Len(sks[g].pend) < MaxPend
                     THEN [sks EXCEPT ![g].pend = Append(@, pkt.data)]
                     ELSE sks
         /\ conn' = [cn EXCEPT ![c].pc = "recv", ![c].pkt = pkt, ![c].gsock = g,
                               ![c].poolAlive = FALSE]
         /\ clients' = cl
    ELSE /\ socks' = sks
         /\ LoopBack(c, cn, cl)

\* _handle_tunnel_packet up to its first suspension: parse, the falsy test,
\* then _forward_to_game_server and _get_game_server_connection.
HandleTunnelPacket(c, cn, packet) ==
    LET res == Server_parse_tunnel_packet(packet)
    IN  IF Falsy(res)
        THEN /\ LoopBack(c, cn, clients)
             /\ UNCHANGED << pools, socks >>
        ELSE LET key    == FormatAddr(res.addr)
                 pkt    == [data |-> res.data, addr |-> res.addr]
                 pools1 == IF key \in DOMAIN pools THEN pools ELSE MapPut(pools, key, {})
             IN  \E o \in ScanPool(pools1[key], socks) :
                    LET sks1 == CloseAll(socks, o.evict)
                    IN  /\ pools' = [pools1 EXCEPT ![key] = @ \ o.evict]
                        /\ IF o.hit # 0
                           THEN SendRequest(c, cn, clients, sks1, o.hit, pkt)
                           ELSE \* socket.socket(), then the awaited connect
                                /\ Len(socks) < MaxSocks
                                /\ socks' = Append(sks1, NewSock(key))
                                /\ conn' = [cn EXCEPT ![c].pc = "connect", ![c].pkt = pkt,
                                                      ![c].gsock = Len(socks) + 1,
                                                      ![c].poolAlive = TRUE]
                                /\ UNCHANGED clients

\* _handle_heartbeat
HandleHeartbeat(c, cn) == WriterWrite(cn, c, HEARTBEAT_ACK)

\* A receive loop that leaves last_activity as it was.
HandleClientNoRefresh(c) ==
    /\ conn[c].pc = "read"
    /\ conn[c].inq # << >> \/ conn[c].eof
    /\ IF conn[c].inq = << >>
       THEN /\ conn' = [DisconnectConn(conn, clients, client_id(conn, c)) EXCEPT
                           ![c].pc = "done"]
            /\ clients' = DisconnectReg(clients, client_id(conn, c))
            /\ UNCHANGED << pools, socks >>
       ELSE LET data == Slice(conn[c].inq, 0, buffer_size)
                cn1  == [conn EXCEPT ![c].inq = Slice(@, buffer_size, Len(@))]
            IN  IF data = HEARTBEAT
                THEN /\ LoopBack(c, HandleHeartbeat(c, cn1), clients)
                     /\ UNCHANGED << pools, socks >>
                ELSE HandleTunnelPacket(c, cn1, data)
    /\ UNCHANGED << cx, proc, tc, started, running, now >>

\* One iteration of _handle_client's loop, from the return of
\* reader.read(buffer_size) to the next suspension.
HandleClient(c) ==
    /\ conn[c].pc = "read"
    /\ conn[c].inq # << >> \/ conn[c].eof
    /\ IF conn[c].inq = << >>
       THEN \* read returned b"": break, then the finally clause
            /\ conn' = [DisconnectConn(conn, clients, client_id(conn, c)) EXCEPT
                           ![c].pc = "done"]
            /\ clients' = DisconnectReg(clients, client_id(conn, c))
            /\ UNCHANGED << pools, socks >>
       ELSE LET data == Slice(conn[c].inq, 0, buffer_size)
                cn1  == [conn EXCEPT ![c].inq = Slice(@, buffer_size, Len(@)),
                                     ![c].last_activity = now]
            IN  IF data = HEARTBEAT
                THEN /\ LoopBack(c, HandleHeartbeat(c, cn1), clients)
                     /\ UNCHANGED << pools, socks >>
                ELSE HandleTunnelPacket(c, cn1, data)
    /\ UNCHANGED << cx, proc, tc, started, running, now >>

\* The awaited game_socket.connect returned: settimeout(None),
\* pool.add(game_socket), back in _forward_to_game_server the send.  pool is
\* the set the task looked up before the await; after stop() cleared the
\* dict it is no longer the dict's set (poolAlive = FALSE).
ForwardConnectOk(c) ==
    /\ conn[c].pc = "connect"
    /\ conn[c].pkt.addr.port \in 1..65535
    /\ LET g    == conn[c].gsock
           key  == socks[g].key
           sks1 == [socks EXCEPT ![g].st = "open"]
       IN  /\ pools' = IF conn[c].poolAlive THEN [pools EXCEPT ![key] = @ \cup {g}] ELSE pools
           /\ SendRequest(c, conn, clients, sks1, g, conn[c].pkt)
    /\ UNCHANGED << cx, proc, tc, started, running, now >>

ForwardConnectFailEscapes(c) ==
    /\ conn[c].pc = "connect"
    /\ socks' = [socks EXCEPT ![conn[c].gsock].st = "failed"]
    /\ conn' = [DisconnectConn(conn, clients, client_id(conn, c)) EXCEPT ![c].pc = "done"]
    /\ clients' = DisconnectReg(clients, client_id(conn, c))
    /\ UNCHANGED << cx, proc, tc, started, running, pools, now >>

\* The awaited connect raised (refused, timed out after 5 s, bad port): the
\* except clause returns None, no reply is written.
ForwardConnectFail(c) ==
    /\ conn[c].pc = "connect"
    /\ socks' = [socks EXCEPT ![conn[c].gsock].st = "failed"]
    /\ LoopBack(c, conn, clients)
    /\ UNCHANGED << cx, proc, tc, started, running, pools, now >>

\* game_socket.recv(buffer_size) returned: with bytes, the reply is
\* re-encoded with the request's target_addr and written to the session;
\* with b"" (the destination closed) nothing is written.
ForwardRecv(c) ==
    /\ conn[c].pc = "recv"
    /\ LET g == conn[c].gsock
       IN  /\ \/ socks[g].rx # << >>
              \/ socks[g].st = "halfclosed"
           /\ LET response == Slice(socks[g].rx, 0, buffer_size)
                  cn1 == IF response # << >>
                         THEN WriterWrite(conn, c,
                                  Server_create_tunnel_packet(response, conn[c].pkt.addr))
                         ELSE conn
              IN  /\ socks' = [socks EXCEPT ![g].rx = Slice(@, buffer_size, Len(@))]
                  /\ LoopBack(c, cn1, clients)
    /\ UNCHANGED << cx, proc, tc, started, running, pools, now >>

\* recv raised (the socket was reset by the destination or closed here).
ForwardRecvError(c) ==
    /\ conn[c].pc = "recv"
    /\ socks[conn[c].gsock].st \in {"reset", "closed"}
    /\ LoopBack(c, conn, clients)
    /\ UNCHANGED << cx, proc, tc, started, running, pools, socks, now >>

\* asyncio.wait_for gave up after 5 s: None is returned; the executor
\* thread stays blocked in recv on the socket.
ForwardTimeout(c) ==
    /\ conn[c].pc = "recv"
    /\ LET g == conn[c].gsock
       IN  /\ socks[g].st = "open"
           /\ socks[g].rx = << >>
           /\ socks[g].zombies < MaxZombies
           /\ socks' = [socks EXCEPT ![g].zombies = @ + 1]
    /\ LoopBack(c, conn, clients)
    /\ UNCHANGED << cx, proc, tc, started, running, pools, now >>

\* A thread left behind by a timed-out forward returns from recv; what it
\* read is dropped.
ZombieRecv(g) ==
    /\ socks[g].zombies > 0
    /\ socks[g].rx # << >> \/ socks[g].st # "open"
    /\ socks' = [socks EXCEPT ![g].zombies = @ - 1, ![g].rx = << >>]
    /\ UNCHANGED << cx, proc, tc, started, running, clients, conn, pools, now >>

\* One sweep of _cleanup_inactive_clients (the body of its loop).
CleanupInactiveClients ==
    /\ running
    /\ LET inactive_clients ==
               {id \in DOMAIN clients : Inactive(now, conn[clients[id]].last_activity)}
       IN  /\ clients' = [id \in DOMAIN clients \ inactive_clients |-> clients[id]]
           /\ conn' = [c \in DOMAIN conn |->
                          IF /\ client_id(conn, c) \in inactive_clients
                             /\ clients[client_id(conn, c)] = c
                          THEN [conn[c] EXCEPT !.reaped = TRUE,
                                               !.wclosed = @ \/ conn[c].socket # "None"]
                          ELSE conn[c]]
    /\ UNCHANGED << cx, proc, tc, started, running, pools, socks, now >>

\* TunnelServer.stop
ServerStop ==
    /\ running
    /\ running' = FALSE
    /\ conn' = [c \in DOMAIN conn |->
                   LET cn0 == IF /\ client_id(conn, c) \in DOMAIN clients
                                 /\ clients[client_id(conn, c)] = c
                                 /\ conn[c].socket # "None"
                              THEN [conn[c] EXCEPT !.wclosed = TRUE]
                              ELSE conn[c]
                   IN  [cn0 EXCEPT !.poolAlive = FALSE]]
    /\ clients' = EmptyMap
    /\ socks' = CloseAll(socks, UNION {pools[k] : k \in DOMAIN pools})
    /\ pools' = EmptyMap
    /\ UNCHANGED << cx, proc, tc, started, now >>

\* ------------------------------------------------------------------------
\* The relay's environment: time, peers, destinations.
\* ------------------------------------------------------------------------
Tick ==
    /\ now + TickLen <= MaxTime
    /\ now' = now + TickLen
    /\ UNCHANGED << cx, proc, tc, started, running, clients, conn, pools, socks >>

\* What a destination may answer to request p: p reversed, or bytes that
\* end like the head of an envelope (length 11, address "127.0.0.1:9").
Pong(p) == [i \in 1..Len(p) |-> p[Len(p) + 1 - i]]

EnvelopeLike == << 1 >> \o PackU32(11) \o << 49, 50, 55, 46, 48, 46, 48, 46, 49, 58, 57 >>

Reply(p, crafted) == IF crafted THEN EnvelopeLike ELSE Pong(p)

\* The destination answers its oldest unanswered request.
GameServerReply(g, crafted) ==
    /\ socks[g].st = "open"
    /\ socks[g].pend # << >>
    /\ socks' = [socks EXCEPT ![g].pend = Tail(@),
                              ![g].rx = @ \o Reply(Head(socks[g].pend), crafted)]
    /\ UNCHANGED << cx, proc, tc, started, running, clients, conn, pools, now >>

\* The destination closes its end (FIN).
GameServerClose(g) ==
    /\ socks[g].st = "open"
    /\ socks' = [socks EXCEPT ![g].st = "halfclosed", ![g].pend = << >>]
    /\ UNCHANGED << cx, proc, tc, started, running, clients, conn, pools, now >>

\* The destination resets the connection (RST).
GameServerReset(g) ==
    /\ socks[g].st \in {"open", "halfclosed"}
    /\ socks' = [socks EXCEPT ![g].st = "reset", ![g].pend = << >>, ![g].rx = << >>]
    /\ UNCHANGED << cx, proc, tc, started, running, clients, conn, pools, now >>

\* What a peer writes to its connection in one piece: the keepalive, bytes
\* that are no envelope, or an envelope for a destination.  A peer writes, and closes, while its
\* session waits in reader.read (or before the session exists): bytes that
\* arrive during a forward are read by the same later read.
PeerKeys == {[host |-> << 103 >>, port |-> 7]}

KeepaliveChunks == {HEARTBEAT, << 0, 0, 0 >>}

EnvelopeChunks == {Client_create_tunnel_packet(<< 112, 105 >>, k) : k \in PeerKeys}

PeerData(c, chunk) ==
    /\ conn[c].kind = "peer"
    /\ conn[c].pc = "read"
    /\ ~conn[c].eof
    /\ conn[c].inq = << >>
    /\ conn' = [conn EXCEPT ![c].inq = chunk]
    /\ UNCHANGED << cx, proc, tc, started, running, clients, pools, socks, now >>

PeerClose(c) ==
    /\ conn[c].kind = "peer"
    /\ conn[c].pc \in {"pending", "read"}
    /\ conn[c].inq = << >>
    /\ ~conn[c].eof
    /\ conn' = [conn EXCEPT ![c].eof = TRUE]
    /\ UNCHANGED << cx, proc, tc, started, running, clients, pools, socks, now >>

\* ------------------------------------------------------------------------
\* The session registry: accepts, keepalives, disconnects, the idle sweep.
\* ------------------------------------------------------------------------
RelayInit == CodecIdle /\ ServerConstructed /\ ClientConstructed /\ ProcNone

RegistryNext ==
    \/ ServerStart
    \/ PeerConnect
    \/ \E c \in DOMAIN conn : HandleClientConnection(c)
    \/ \E c \in DOMAIN conn : \E chunk \in KeepaliveChunks : PeerData(c, chunk)
    \/ \E c \in DOMAIN conn : PeerClose(c)
    \/ \E c \in DOMAIN conn : HandleClient(c)
    \/ CleanupInactiveClients
    \/ Tick
    \/ ServerStop

SpecRegistry == RelayInit /\ [][RegistryNext]_vars

\* The sessions in the registry.
Registered == {clients[id] : id \in DOMAIN clients}

\* C6: a connection accepted while the registry holds max_connections
\* sessions is closed at once and not registered, and the registry never
\* holds more than max_connections sessions.
C6_Capacity ==
    /\ [](Cardinality(DOMAIN clients) <= max_connections)
    /\ [][\A c \in DOMAIN conn :
            (/\ conn[c].pc = "pending" /\ conn'[c].pc # "pending"
             /\ Cardinality(DOMAIN clients) >= max_connections)
            => (/\ conn'[c].pc = "rejected" /\ conn'[c].wclosed
                /\ clients' = clients)]_vars

C6_Witness ==
    /\ Cardinality(DOMAIN clients) = max_connections
    /\ \E c \in DOMAIN conn : conn[c].pc = "rejected" /\ conn[c].wclosed

\* C7: a sweep of the idle reaper removes from the registry every session
\* whose last activity is more than the threshold ago and keeps every
\* other session.
C7_IdleSweep ==
    [][CleanupInactiveClients =>
        /\ DOMAIN clients' \subseteq DOMAIN clients
        /\ \A id \in DOMAIN clients :
              (id \in DOMAIN clients')
                  <=> (now - conn[clients[id]].last_activity <= timeout)]_vars

\* A session reaped by a sweep (its task still waits in reader.read) beside
\* a session exactly the threshold old that the sweeps kept.
C7_Witness ==
    /\ running
    /\ \E c \in DOMAIN conn :
          /\ conn[c].pc = "read"
          /\ c \notin Registered
          /\ now - conn[c].last_activity > timeout
    /\ \E d \in Registered : now - conn[d].last_activity = timeout

\* C8: when a sweep removes a session, the session's stream connection is
\* closed in the same step.
C8_ReapedClosed ==
    [][CleanupInactiveClients =>
        \A id \in DOMAIN clients \ DOMAIN clients' : conn'[clients[id]].wclosed]_vars

\* ------------------------------------------------------------------------
\* The destination cache: sessions forwarding envelopes to destinations.
\* ------------------------------------------------------------------------
CacheNext ==
    \/ ServerStart
    \/ PeerConnect
    \/ \E c \in DOMAIN conn : HandleClientConnection(c)
    \/ \E c \in DOMAIN conn : \E chunk \in EnvelopeChunks : PeerData(c, chunk)
    \/ \E c \in DOMAIN conn : PeerClose(c)
    \/ \E c \in DOMAIN conn : HandleClient(c)
    \/ \E c \in DOMAIN conn : ForwardConnectOk(c)
    \/ \E c \in DOMAIN conn : ForwardConnectFail(c)
    \/ \E c \in DOMAIN conn : ForwardRecv(c)
    \/ \E c \in DOMAIN conn : ForwardRecvError(c)
    \/ \E c \in DOMAIN conn : ForwardTimeout(c)
    \/ \E g \in DOMAIN socks : ZombieRecv(g)
    \/ \E g \in DOMAIN socks : GameServerReply(g, FALSE)
    \/ \E g \in DOMAIN socks : GameServerClose(g)
    \/ \E g \in DOMAIN socks : GameServerReset(g)
    \/ ServerStop

SpecCache == RelayInit /\ [][CacheNext]_vars

\* Session c's call of _get_game_server_connection for destination key
\* found a cached socket (the session went from its read to the send on an
\* existing socket); it missed (a socket was created and the connect is
\* awaited); the awaited connect succeeded.
GetHit(c) == conn[c].pc = "read" /\ conn'[c].pc = "recv"

GetMiss(c) == conn[c].pc = "read" /\ conn'[c].pc = "connect"

GetConnected(c) == conn[c].pc = "connect" /\ conn'[c].pc = "recv"

\* The sockets cached for a destination that pass the liveness check.
LiveCached(key) ==
    IF key \in DOMAIN pools THEN {g \in pools[key] : PeerNameOk(socks[g])} ELSE {}

\* C9: a get that finds a cached connection passing the liveness check
\* opens no connection and returns the connection an earlier get for that
\* destination returned, if that one is still cached and passes the check;
\* a connection that fails the check is removed from the cache and closed
\* exactly once; a newly established connection is cached (unless stop()
\* emptied the cache while its connect was awaited).
C9_CacheGet ==
    [][\A c \in DOMAIN conn :
        /\ GetHit(c) =>
              /\ Len(socks') = Len(socks)
              /\ \A d \in DOMAIN conn :
                    (/\ conn[d].pc = "recv"
                     /\ socks[conn[d].gsock].key = socks[conn'[c].gsock].key
                     /\ conn[d].gsock \in LiveCached(socks[conn[d].gsock].key))
                    => conn'[c].gsock = conn[d].gsock
        /\ (GetHit(c) \/ GetMiss(c)) =>
              \A g \in DOMAIN socks :
                 LET key == socks[g].key
                 IN  /\ (key \in DOMAIN pools /\ g \in pools[key] /\ g \notin pools'[key])
                         => socks'[g].st = "closed" /\ socks'[g].closes = 1
                     /\ socks'[g].closes <= 1
        /\ (GetConnected(c) /\ conn[c].poolAlive) =>
              conn'[c].gsock \in pools'[socks[conn[c].gsock].key]]_vars

\* C10: the cache never holds two connections to one destination that both
\* pass the liveness check.
C10_OneLivePerDestination ==
    \A key \in DOMAIN pools : Cardinality(LiveCached(key)) <= 1

\* Session c's wait for the reply ended without one: recv returned b"",
\* recv raised, or the wait timed out; the session is back at its loop.
ForwardFailed(c) ==
    /\ conn[c].pc = "recv" /\ conn'[c].pc # "recv"
    /\ socks[conn[c].gsock].rx = << >>

\* C11: a cached connection that is dead is evicted before any later
\* reuse: a get that hits returns a connection the destination has not
\* closed, and a forward that fails on its connection leaves that
\* connection out of the cache.
C11_DeadEvicted ==
    [][\A c \in DOMAIN conn :
        /\ GetHit(c) => socks[conn'[c].gsock].st = "open"
        /\ (ForwardFailed(c) /\ socks[conn[c].gsock].st # "open")
              => \A key \in DOMAIN pools' : conn[c].gsock \notin pools'[key]]_vars

\* ------------------------------------------------------------------------
\* The tunnel client (client/main.py), its local applications and its link.
\* ------------------------------------------------------------------------
MaxSends == 2           \* datagrams the local applications send in one run

MaxBeats == 1           \* rounds of _monitor_connection in one run

MaxSplits == 1          \* times the network hands over less than all bytes in flight

recv_size == 4096       \* tunnel_socket.recv(4096), local_socket.recvfrom(4096)

Loopback == << 49, 50, 55, 46, 48, 46, 48, 46, 49 >>            \* "127.0.0.1"

\* The local applications' sockets, as recvfrom reports them.
LocalSenders == {[host |-> Loopback, port |-> 5000], [host |-> Loopback, port |-> 5001]}

\* Where the local applications mean their traffic to go: 10.0.0.5:27015.
Destinations == {[host |-> << 49, 48, 46, 48, 46, 48, 46, 53 >>, port |-> 27015]}

AppPayloads == {<< 112, 105, 110, 103 >>}                       \* b"ping"

\* local_socket.sendto(game_data, target_addr) returns: the host is one the
\* client's machine can send to and the port fits 16 bits; otherwise it raises.
SendtoOk(addr) == addr.host = Loopback /\ addr.port \in 0..65535

\* ------------------------------------------------------------------------
\* Choosing the relay: _load_servers, _test_all_servers, _select_best_server.
\* ------------------------------------------------------------------------

MaxServers == 2         \* entries of the configured catalog

ping_attempts == 3      \* for _ in range(3) in _test_server

\* A latency in milliseconds is a fraction num/den; float('inf') has den = 0.
\* ServerInfo.latency defaults to 0.0.
Infinity == [num |-> 1, den |-> 0]

DefaultLatency == [num |-> 0, den |-> 1]

\* a < b on floats: nothing is above infinity, infinity is below nothing.
Less(a, b) ==
    IF a.den = 0 THEN FALSE
    ELSE IF b.den = 0 THEN TRUE
    ELSE a.num * b.den < b.num * a.den

SameLatency(a, b) == ~Less(a, b) /\ ~Less(b, a)

\* attempts keeps what the probes of this entry met, for the record.
ServerInfo == [latency |-> DefaultLatency, tested |-> FALSE, attempts |-> << >>]

\* What one connection attempt of ping_host can meet: the connection is made
\* after 10 or 30 ms, it is refused or times out (OSError, TimeoutError), or
\* open_connection raises something ping_host does not catch (a host name
\* that cannot be encoded raises UnicodeError).
AttemptResults ==
    {[kind |-> "ok", latency |-> 10], [kind |-> "ok", latency |-> 30],
     [kind |-> "refused", latency |-> 0], [kind |-> "raise", latency |-> 0]}

\* NetworkUtils.ping_host's return value (latency_ms, success) when it returns.
ping_host(r) ==
    IF r.kind = "ok" THEN [latency |-> r.latency, success |-> TRUE]
                     ELSE [latency |-> 0, success |-> FALSE]

RECURSIVE Sum(_)
Sum(q) == IF q = << >> THEN 0 ELSE Head(q) + Sum(Tail(q))

RECURSIVE Successes(_)
\* latencies, as the loop of _test_server collects it.
Successes(attempts) ==
    IF attempts = << >> THEN << >>
    ELSE LET r == ping_host(Head(attempts))
         IN  (IF r.success THEN << r.latency >> ELSE << >>) \o Successes(Tail(attempts))

\* The mean taken over all three attempts, a failed one counting as its 0.0.
ProbeLatencyAllAttempts(attempts) ==
    IF \E k \in DOMAIN attempts : attempts[k].kind = "raise" THEN Infinity
    ELSE IF Successes(attempts) # << >>
         THEN [num |-> Sum(Successes(attempts)), den |-> Len(attempts)]
         ELSE Infinity

\* The latency _test_server leaves in server.latency.
ProbeLatency(attempts) ==
    IF \E k \in DOMAIN attempts : attempts[k].kind = "raise" THEN Infinity
    ELSE IF Successes(attempts) # << >>
         THEN [num |-> Sum(Successes(attempts)), den |-> Len(Successes(attempts))]
         ELSE Infinity

\* The runs of the probe loop: an attempt that raises ends the loop, so the
\* attempts after it are not made (they are written as "raise" too).
ProbeRuns ==
    {a \in [1..ping_attempts -> AttemptResults] :
        \A k \in 1..(ping_attempts - 1) : a[k].kind = "raise" => a[k + 1].kind = "raise"}

\* One task of _test_all_servers: _test_server(servers[i]), whole.
TestServer(i, attempts) ==
    /\ tc.phase = "init"
    /\ i \in DOMAIN tc.servers
    /\ ~tc.servers[i].tested
    /\ tc' = [tc EXCEPT !.servers[i] = [latency |-> ProbeLatency(attempts), tested |-> TRUE,
                                       attempts |-> attempts]]
    /\ UNCHANGED << cx, proc, started, running, clients, conn, pools, socks, now >>

\* s.latency <= float('inf'): lets every entry through.
AvailableLoose(latency) == ~Less(Infinity, latency)

\* s.latency < float('inf')
Available(latency) == Less(latency, Infinity)

RECURSIVE Filter(_, _)
\* [s for s in self.servers if ...], as indices into the catalog.
Filter(sv, i) ==
    IF i > Len(sv) THEN << >>
    ELSE (IF Available(sv[i].latency) THEN << i >> ELSE << >>) \o Filter(sv, i + 1)

RECURSIVE InsertBeforeTies(_, _, _)
InsertBeforeTies(x, sorted, sv) ==
    IF sorted = << >> THEN << x >>
    ELSE IF ~Less(sv[Head(sorted)].latency, sv[x].latency)
         THEN << x >> \o sorted
         ELSE << Head(sorted) >> \o InsertBeforeTies(x, Tail(sorted), sv)

RECURSIVE SortTiesReversed(_, _)
\* A sort that is not stable: equal keys come out in reverse order.
SortTiesReversed(idx, sv) ==
    IF idx = << >> THEN << >>
    ELSE InsertBeforeTies(idx[Len(idx)],
                          SortTiesReversed(SubSeq(idx, 1, Len(idx) - 1), sv), sv)

RECURSIVE InsertByLatency(_, _, _)
InsertByLatency(x, sorted, sv) ==
    IF sorted = << >> THEN << x >>
    ELSE IF Less(sv[x].latency, sv[Head(sorted)].latency)
         THEN << x >> \o sorted
         ELSE << Head(sorted) >> \o InsertByLatency(x, Tail(sorted), sv)

RECURSIVE SortByLatency(_, _)
\* list.sort(key=lambda s: s.latency): ascending and stable.
SortByLatency(idx, sv) ==
    IF idx = << >> THEN << >>
    ELSE InsertByLatency(idx[Len(idx)],
                         SortByLatency(SubSeq(idx, 1, Len(idx) - 1), sv), sv)

\* _select_best_server, called by initialize once every probe task is done.
\* Raising leaves the client in phase "noservers".
SelectBestServer ==
    /\ tc.phase = "init"
    /\ \A i \in DOMAIN tc.servers : tc.servers[i].tested
    /\ LET available_servers == Filter(tc.servers, 1)
       IN  IF available_servers = << >>
           THEN tc' = [tc EXCEPT !.phase = "noservers"]
           ELSE tc' = [tc EXCEPT !.phase = "ready",
                          !.current_server = SortByLatency(available_servers, tc.servers)[1]]
    /\ UNCHANGED << cx, proc, started, running, clients, conn, pools, socks, now >>

\* The client after _load_servers read a catalog of n entries.
ClientLoaded ==
    \E n \in 0..MaxServers :
        tc = [phase |-> "init", running |-> FALSE, connected |-> FALSE, link |-> 0,
              localq |-> << >>, local |-> "wait", tunnel |-> "wait", monitor |-> "wait",
              sends |-> 0, beats |-> 0, splits |-> 0, sent |-> {}, delivered |-> {},
              servers |-> [i \in 1..n |-> ServerInfo], current_server |-> 0,
              switches |-> 0, dialing |-> 0, dials |-> << >>,
          writes |-> NoWrites]

\* The client after initialize returned, with one relay in its catalog.
ClientInitialized ==
    tc = [phase |-> "ready", running |-> FALSE, connected |-> FALSE, link |-> 0,
          localq |-> << >>, local |-> "wait", tunnel |-> "wait", monitor |-> "wait",
          sends |-> 0, beats |-> 0, splits |-> 0, sent |-> {}, delivered |-> {},
          servers |-> << [latency |-> [num |-> 10, den |-> 1], tested |-> TRUE,
                          attempts |-> [k \in 1..ping_attempts |->
                                           [kind |-> "ok", latency |-> 10]]] >>,
          current_server |-> 1, switches |-> 0, dialing |-> 0, dials |-> << >>,
          writes |-> NoWrites]

\* TunnelClient.start, called once initialize returned or raised: it raises
\* when there is no current server; else running = True, _create_local_proxy,
\* _connect_to_server (which raises when the relay does not listen), then
\* the three traffic tasks.
ClientStart ==
    /\ tc.phase \in {"ready", "noservers"}
    /\ IF tc.current_server = 0
       THEN /\ tc' = [tc EXCEPT !.phase = "refused"]
            /\ UNCHANGED conn
       ELSE IF started /\ Len(conn) < MaxAccepts
            THEN /\ conn' = Append(conn, NewConn("tunnel", Len(conn) + 1))
                 /\ tc' = [tc EXCEPT !.phase = "started", !.running = TRUE,
                                     !.connected = TRUE, !.link = Len(conn) + 1]
            ELSE /\ tc' = [tc EXCEPT !.phase = "failed", !.running = TRUE]
                 /\ UNCHANGED conn
    /\ UNCHANGED << cx, proc, started, running, clients, pools, socks, now >>

\* A local application sends a datagram meant for dst to the proxy port.
LocalAppSend(src, dst, data) ==
    /\ tc.phase = "started"
    /\ tc.sends < MaxSends
    /\ tc' = [tc EXCEPT !.sends = @ + 1,
                        !.localq = Append(@, [data |-> data, addr |-> src]),
                        !.sent = @ \cup {[src |-> src, dst |-> dst, data |-> data]}]
    /\ UNCHANGED << cx, proc, started, running, clients, conn, pools, socks, now >>

\* One iteration of _handle_local_traffic.
HandleLocalTraffic ==
    /\ tc.running /\ tc.connected /\ tc.local = "wait"
    /\ tc.localq # << >>
    /\ LET dgram  == Head(tc.localq)
           data   == Slice(dgram.data, 0, recv_size)
           packet == Client_create_tunnel_packet(data, dgram.addr)
       IN  IF data # << >> /\ tc.link # 0
           THEN IF conn[tc.link].wclosed
                THEN /\ tc' = [tc EXCEPT !.localq = Tail(@), !.local = "done"]
                     /\ UNCHANGED conn
                ELSE /\ tc' = [tc EXCEPT !.localq = Tail(@)]
                     /\ conn' = [conn EXCEPT ![tc.link].flight = @ \o packet]
           ELSE /\ tc' = [tc EXCEPT !.localq = Tail(@)]
                /\ UNCHANGED conn
    /\ UNCHANGED << cx, proc, started, running, clients, pools, socks, now >>

\* One iteration of _handle_tunnel_traffic.
HandleTunnelTraffic ==
    /\ tc.running /\ tc.connected /\ tc.link # 0 /\ tc.tunnel = "wait"
    /\ \/ conn[tc.link].rxq # << >>
       \/ conn[tc.link].wclosed /\ conn[tc.link].out = << >>
    /\ LET data == Slice(conn[tc.link].rxq, 0, recv_size)
           res  == Client_parse_tunnel_packet(data)
       IN  /\ conn' = [conn EXCEPT ![tc.link].rxq = Slice(@, recv_size, Len(@))]
           /\ tc' = IF data = << >> THEN [tc EXCEPT !.tunnel = "done"]
                    ELSE IF Falsy(res) THEN tc
                    ELSE IF SendtoOk(res.addr)
                         THEN [tc EXCEPT !.delivered =
                                   @ \cup {[to |-> res.addr, data |-> res.data]}]
                         ELSE [tc EXCEPT !.tunnel = "done"]
    /\ UNCHANGED << cx, proc, started, running, clients, pools, socks, now >>

\* One round of _monitor_connection: the keepalive is sent on the link,
\* then NetworkUtils.ping_host opens a connection to the relay and closes it.
MonitorConnection ==
    /\ tc.running /\ tc.connected /\ tc.monitor = "wait"
    /\ tc.beats < MaxBeats
    /\ tc.link # 0
    /\ tc' = [tc EXCEPT !.beats = @ + 1]
    /\ LET cn1 == [conn EXCEPT ![tc.link].flight = @ \o HEARTBEAT]
       IN  conn' = IF Len(conn) < MaxAccepts
                   THEN Append(cn1, [NewConn("ping", Len(conn) + 1) EXCEPT !.eof = TRUE])
                   ELSE cn1
    /\ UNCHANGED << cx, proc, started, running, clients, pools, socks, now >>

\* The network hands the relay the first k bytes the client has in flight;
\* handing over less than all of them is counted against MaxSplits.
NetToRelay ==
    /\ tc.link # 0
    /\ \E k \in 1..Len(conn[tc.link].flight) :
          /\ k < Len(conn[tc.link].flight) => tc.splits < MaxSplits
          /\ conn' = [conn EXCEPT ![tc.link].flight = Slice(@, k, Len(@)),
                                  ![tc.link].inq = @ \o Slice(conn[tc.link].flight, 0, k)]
          /\ tc' = [tc EXCEPT !.splits = IF k < Len(conn[tc.link].flight) THEN @ + 1 ELSE @]
    /\ UNCHANGED << cx, proc, started, running, clients, pools, socks, now >>

\* The network hands the client the first k bytes the relay has in flight.
NetToClient ==
    /\ tc.link # 0
    /\ \E k \in 1..Len(conn[tc.link].out) :
          /\ k < Len(conn[tc.link].out) => tc.splits < MaxSplits
          /\ conn' = [conn EXCEPT ![tc.link].out = Slice(@, k, Len(@)),
                                  ![tc.link].rxq = @ \o Slice(conn[tc.link].out, 0, k)]
          /\ tc' = [tc EXCEPT !.splits = IF k < Len(conn[tc.link].out) THEN @ + 1 ELSE @]
    /\ UNCHANGED << cx, proc, started, running, clients, pools, socks, now >>

\* The relay and the codec as constructed, the client initialized.
LinkInit == CodecIdle /\ ServerConstructed /\ ClientInitialized /\ ProcNone

LinkNext ==
    \/ ServerStart
    \/ ClientStart
    \/ \E c \in DOMAIN conn : HandleClientConnection(c)
    \/ \E src \in LocalSenders : \E dst \in Destinations : \E data \in AppPayloads :
          LocalAppSend(src, dst, data)
    \/ HandleLocalTraffic
    \/ MonitorConnection
    \/ NetToRelay
    \/ NetToClient
    \/ \E c \in DOMAIN conn : HandleClient(c)
    \/ \E c \in DOMAIN conn : ForwardConnectOk(c)
    \/ \E c \in DOMAIN conn : ForwardConnectFail(c)
    \/ \E c \in DOMAIN conn : ForwardRecv(c)
    \/ \E g \in DOMAIN socks : \E crafted \in BOOLEAN : GameServerReply(g, crafted)
    \/ HandleTunnelTraffic

SpecLink == LinkInit /\ [][LinkNext]_vars

\* C3: the relay forwards a local application's payload to the true
\* destination of that traffic: every outbound connection the relay makes
\* goes to the destination of a datagram a local application sent.
C3_ForwardsToTrueDestination ==
    \A g \in DOMAIN socks : \E q \in tc.sent : socks[g].key = FormatAddr(q.dst)

\* C4: every reply the client hands to local_socket.sendto goes to the
\* address of a local application that sent a request.
C4_ReturnAddress ==
    \A d \in tc.delivered : \E q \in tc.sent : q.src = d.to

\* b is exactly one envelope: it decodes, and encoding what it decodes to
\* gives b back.
IsWholeEnvelope(b) ==
    LET res == Server_parse_tunnel_packet(b)
    IN  res.ok /\ Server_create_tunnel_packet(res.data, res.addr) = b

\* C5: whatever way the network splits the client's byte stream, every
\* buffer the tunnel client's session passes to decode is one whole
\* envelope (the keepalive alone bypasses decode).
C5_WholeEnvelopes ==
    [][(/\ tc.link # 0
        /\ conn[tc.link].pc = "read"
        /\ conn[tc.link].inq # << >> /\ conn'[tc.link].inq = << >>
        /\ conn[tc.link].inq # HEARTBEAT)
       => IsWholeEnvelope(conn[tc.link].inq)]_vars

\* b holds the bytes of a keepalive probe, whole and in order.
HoldsProbe(b) ==
    \E i \in 0..(Len(b) - Len(HEARTBEAT)) : Slice(b, i, i + Len(HEARTBEAT)) = HEARTBEAT

\* C12: a keepalive probe read by the tunnel client's session is answered
\* with one keepalive-ack and is not passed to the decoder, whatever other
\* bytes the same read returned with it.
C12_ProbeAcked ==
    [][(/\ tc.link # 0
        /\ conn[tc.link].pc = "read"
        /\ conn[tc.link].inq # << >> /\ conn'[tc.link].inq = << >>
        /\ HoldsProbe(conn[tc.link].inq))
       => (/\ conn'[tc.link].out = conn[tc.link].out \o HEARTBEAT_ACK
           /\ conn'[tc.link].pc = "read"
           /\ socks' = socks)]_vars

\* ------------------------------------------------------------------------
\* One tunnel client's session forwarding to destinations that may refuse,
\* stay silent, close or reset.
\* ------------------------------------------------------------------------
ForwardNext ==
    \/ ServerStart
    \/ ClientStart
    \/ \E c \in DOMAIN conn : HandleClientConnection(c)
    \/ \E src \in LocalSenders : \E dst \in Destinations : \E data \in AppPayloads :
          LocalAppSend(src, dst, data)
    \/ HandleLocalTraffic
    \/ NetToRelay
    \/ NetToClient
    \/ \E c \in DOMAIN conn : HandleClient(c)
    \/ \E c \in DOMAIN conn : ForwardConnectOk(c)
    \/ \E c \in DOMAIN conn : ForwardConnectFail(c)
    \/ \E c \in DOMAIN conn : ForwardRecv(c)
    \/ \E c \in DOMAIN conn : ForwardRecvError(c)
    \/ \E c \in DOMAIN conn : ForwardTimeout(c)
    \/ \E g \in DOMAIN socks : ZombieRecv(g)
    \/ \E g \in DOMAIN socks : GameServerReply(g, FALSE)
    \/ \E g \in DOMAIN socks : GameServerClose(g)
    \/ \E g \in DOMAIN socks : GameServerReset(g)
    \/ HandleTunnelTraffic

SpecForward == LinkInit /\ [][ForwardNext]_vars

\* Session c's awaited connect to the destination raised.
ConnectFailed(c) ==
    /\ conn[c].pc = "connect" /\ conn'[c].pc # "connect"
    /\ socks'[conn[c].gsock].st = "failed"

\* C17: when a forward times out, cannot connect, or gets no reply from its
\* send and receive, nothing is written to the session for that packet and
\* the session, if registered, stays registered and is back at its read.
C17_SilentDrop ==
    [][\A c \in DOMAIN conn :
        (ConnectFailed(c) \/ ForwardFailed(c)) =>
            /\ conn'[c].out = conn[c].out
            /\ ~conn'[c].wclosed
            /\ (running /\ client_id(conn, c) \in DOMAIN clients) =>
                  /\ conn'[c].pc = "read"
                  /\ client_id(conn, c) \in DOMAIN clients'
                  /\ clients'[client_id(conn, c)] = c]_vars

\* After a refused connect the same session is forwarding a later packet,
\* and nothing was written to it so far.
C17_Witness ==
    /\ tc.link # 0
    /\ conn[tc.link].pc = "recv"
    /\ conn[tc.link].out = << >> /\ conn[tc.link].rxq = << >>
    /\ \E g \in DOMAIN socks : socks[g].st = "failed"
    /\ client_id(conn, tc.link) \in DOMAIN clients

\* b is made of bytes of keepalive-acks only.
IsAckPart(b) ==
    \E i \in 0..Len(HEARTBEAT_ACK) :
        Slice(HEARTBEAT_ACK \o HEARTBEAT_ACK \o HEARTBEAT_ACK, i, i + Len(b)) = b

\* C22: whatever way the network splits the relay's byte stream, every
\* buffer the tunnel-to-local loop reads is one whole envelope (or holds
\* bytes of keepalive-acks only), and the envelope's payload is handed to
\* local_socket.sendto for the address it names.
C22_WholeReplies ==
    [][(/\ tc.link # 0
        /\ Len(conn'[tc.link].rxq) < Len(conn[tc.link].rxq))
       => LET data == Slice(conn[tc.link].rxq, 0, recv_size)
              res  == Client_parse_tunnel_packet(data)
          IN  \/ IsAckPart(data) /\ tc'.delivered = tc.delivered
              \/ /\ IsWholeEnvelope(data)
                 /\ tc'.delivered = tc.delivered \cup {[to |-> res.addr, data |-> res.data]}]_vars

\* ------------------------------------------------------------------------
\* Initialization of the client: probing the catalog and choosing a relay.
\* ------------------------------------------------------------------------

SelectInit == CodecIdle /\ ServerConstructed /\ ClientLoaded /\ ProcNone

SelectNext ==
    \/ \E i \in 1..MaxServers, attempts \in ProbeRuns : TestServer(i, attempts)
    \/ SelectBestServer
    \/ ClientStart
    \/ ServerStart

SpecSelect == SelectInit /\ [][SelectNext]_vars

OkAttempts(i) == {k \in DOMAIN tc.servers[i].attempts : tc.servers[i].attempts[k].kind = "ok"}

RECURSIVE OkTotal(_, _)
OkTotal(i, ks) ==
    IF ks = {} THEN 0
    ELSE LET k == CHOOSE x \in ks : TRUE
         IN  tc.servers[i].attempts[k].latency + OkTotal(i, ks \ {k})

Raised(i) == \E k \in DOMAIN tc.servers[i].attempts : tc.servers[i].attempts[k].kind = "raise"

\* C13: selection takes a candidate of finite latency that no candidate
\* undercuts, and among candidates of that same latency the first of the
\* catalog; the current server never has infinite latency.
C13_LowestFirst ==
    [][(tc.phase = "init" /\ tc'.phase = "ready") =>
          LET c == tc'.current_server
          IN  /\ c \in DOMAIN tc.servers
              /\ tc.servers[c].latency.den # 0
              /\ \A j \in DOMAIN tc.servers :
                    /\ ~Less(tc.servers[j].latency, tc.servers[c].latency)
                    /\ j < c => ~SameLatency(tc.servers[j].latency, tc.servers[c].latency)]_vars

C13_Witness ==
    /\ tc.phase = "ready" /\ Len(tc.servers) = 2 /\ tc.current_server = 1
    /\ SameLatency(tc.servers[1].latency, tc.servers[2].latency)
    /\ tc.servers[1].latency # tc.servers[2].latency

\* C14: once every candidate is unreachable, or the catalog is empty,
\* selection has raised, there is no current server, and start() raises
\* without connecting: the client is not running and no connection to a
\* relay exists.
C14_NoneAvailable ==
    (tc.phase # "init" /\ \A i \in DOMAIN tc.servers : tc.servers[i].latency.den = 0) =>
        /\ tc.phase \in {"noservers", "refused"}
        /\ tc.current_server = 0
        /\ ~tc.running /\ ~tc.connected /\ tc.link = 0
        /\ conn = << >>

C14_Witness ==
    /\ tc.phase = "refused" /\ started
    /\ Len(tc.servers) = 2
    /\ \A i \in DOMAIN tc.servers : tc.servers[i].latency.den = 0

\* C15: a probed candidate's latency is the sum of its successful attempts'
\* latencies divided by their number; with no successful attempt, or when
\* probing raised, it is infinite.
C15_ProbeMean ==
    \A i \in DOMAIN tc.servers :
        tc.servers[i].tested =>
            IF Raised(i) \/ OkAttempts(i) = {}
            THEN tc.servers[i].latency.den = 0
            ELSE /\ tc.servers[i].latency.den # 0
                 /\ tc.servers[i].latency.num * Cardinality(OkAttempts(i))
                       = OkTotal(i, OkAttempts(i)) * tc.servers[i].latency.den

C15_Witness ==
    \E i \in DOMAIN tc.servers :
        /\ tc.servers[i].tested /\ ~Raised(i)
        /\ Cardinality(OkAttempts(i)) = 2
        /\ tc.servers[i].latency.num = 40 /\ tc.servers[i].latency.den = 2

\* ------------------------------------------------------------------------
\* The process: src/main.py main(), run_client, run_server.
\* ------------------------------------------------------------------------

\* main() has parsed its arguments and is about to call run_client or
\* run_server.
ProcStarted ==
    \E mode \in {"client", "server"} :
        proc = [mode |-> mode, state |-> "running", code |-> -1, error |-> FALSE,
                cli |-> NoCli]

\* An exception is on its way out of asyncio.run: initialize or start of the
\* client raised, or start of the server did.
Failed == proc.error \/ tc.phase \in {"noservers", "refused", "failed"}

\* The exception is logged and the process ends normally.
MainExitQuiet ==
    /\ proc.state = "running" /\ Failed
    /\ proc' = [proc EXCEPT !.state = "exited", !.code = 0]
    /\ UNCHANGED << cx, tc, started, running, clients, conn, pools, socks, now >>

\* main(): except Exception: logger.error, sys.exit(1).
MainExitError ==
    /\ proc.state = "running" /\ Failed
    /\ proc' = [proc EXCEPT !.state = "exited", !.code = 1]
    /\ UNCHANGED << cx, tc, started, running, clients, conn, pools, socks, now >>

\* The user interrupts the process: asyncio.run cancels the main task and
\* raises KeyboardInterrupt, which main() logs before returning. A started
\* client passes through the finally of run_client_async, client.stop().
MainInterrupt ==
    /\ proc.state = "running" /\ ~Failed
    /\ proc' = [proc EXCEPT !.state = "exited", !.code = 0]
    /\ IF proc.mode = "client" /\ tc.phase = "started"
       THEN /\ tc' = [tc EXCEPT !.phase = "stopped", !.running = FALSE, !.connected = FALSE]
            /\ conn' = [conn EXCEPT ![tc.link].eof = TRUE]
       ELSE UNCHANGED << tc, conn >>
    /\ UNCHANGED << cx, started, running, clients, pools, socks, now >>

\* run_client_async up to the wait loop: initialize, then start.
RunClient ==
    /\ proc.mode = "client" /\ proc.state = "running" /\ ~Failed
    /\ \/ \E i \in 1..MaxServers, attempts \in ProbeRuns : TestServer(i, attempts)
       \/ SelectBestServer
       \/ tc.phase = "ready" /\ ClientStart

\* run_server_async: server.start().
RunServer ==
    /\ proc.mode = "server" /\ proc.state = "running" /\ ~Failed
    /\ \/ ServerStart
       \/ ServerStartFail

\* The relay the client's catalog points to starts listening, in its own
\* process.
RemoteRelayStart == proc.mode = "client" /\ ServerStart

\* Peers of a relay that is up.
RelayServes ==
    /\ proc.mode = "server" /\ proc.state = "running" /\ ~Failed
    /\ \/ PeerConnect
       \/ \E c \in DOMAIN conn : HandleClientConnection(c)

ProcInit == CodecIdle /\ ServerConstructed /\ ClientLoaded /\ ProcStarted

ProcNext ==
    \/ RunClient
    \/ RunServer
    \/ RemoteRelayStart
    \/ RelayServes
    \/ MainExitError
    \/ MainInterrupt

SpecProc == ProcInit /\ [][ProcNext]_vars

\* C20: the process ends with a non-zero status when startup failed (the
\* client found no reachable relay or could not start, the server could not
\* bind), and with status zero when it was interrupted.
C20_ExitStatus ==
    proc.state = "exited" => IF Failed THEN proc.code # 0 ELSE proc.code = 0

C20_Witness ==
    /\ proc.state = "exited" /\ proc.mode = "client" /\ proc.code = 1
    /\ tc.phase = "noservers" /\ Len(tc.servers) = 2

\* ------------------------------------------------------------------------
\* Changing the relay: switch_server.
\* ------------------------------------------------------------------------

MaxSwitches == 2        \* switch_server calls in one run

\* A switch_server that leaves the old connection open.
SwitchBeginKeepsOld(t) ==
    /\ tc.phase = "started"
    /\ tc.switches < MaxSwitches
    /\ t \in DOMAIN tc.servers
    /\ tc' = [tc EXCEPT !.switches = @ + 1, !.current_server = t, !.link = 0,
                        !.connected = FALSE, !.dialing = tc.switches + 1,
                        !.dials = Append([d \in DOMAIN @ |-> IF d = tc.dialing THEN "closed" ELSE @[d]],
                                         "dialing")]
    /\ UNCHANGED << cx, proc, started, running, clients, conn, pools, socks, now >>

\* switch_server(name of servers[t]) up to its await: tunnel_socket.close(),
\* connected = False, current_server = target, and _connect_to_server up to
\* the connect it hands to the executor. A name the catalog does not hold
\* returns False and changes nothing.
SwitchBegin(t) ==
    /\ tc.phase = "started"
    /\ tc.switches < MaxSwitches
    /\ t \in DOMAIN tc.servers
    /\ conn' = IF tc.link # 0 THEN [conn EXCEPT ![tc.link].eof = TRUE] ELSE conn
    /\ tc' = [tc EXCEPT !.switches = @ + 1, !.current_server = t, !.link = 0,
                        !.connected = FALSE, !.dialing = tc.switches + 1,
                        !.dials = Append([d \in DOMAIN @ |-> IF d = tc.dialing THEN "closed" ELSE @[d]],
                                         "dialing")]
    /\ UNCHANGED << cx, proc, started, running, clients, pools, socks, now >>

\* The connect of call d returned: settimeout(None), connected = True, the
\* call returns True. When a later call closed this socket meanwhile, the
\* relay was left with a connection its peer has closed.
SwitchConnected(d) ==
    /\ d \in DOMAIN tc.dials
    /\ tc.dials[d] \in {"dialing", "closed"}
    /\ started /\ Len(conn) < MaxAccepts
    /\ IF tc.dials[d] = "dialing"
       THEN /\ conn' = Append(conn, NewConn("tunnel", Len(conn) + 1))
            /\ tc' = [tc EXCEPT !.dials[d] = "done", !.dialing = 0, !.connected = TRUE,
                                !.link = Len(conn) + 1]
       ELSE /\ conn' = Append(conn, [NewConn("tunnel", Len(conn) + 1) EXCEPT !.eof = TRUE])
            /\ tc' = [tc EXCEPT !.dials[d] = "done", !.connected = TRUE]
    /\ UNCHANGED << cx, proc, started, running, clients, pools, socks, now >>

\* The connect of call d raised (refused, timed out, or the socket was closed
\* under it): the call logs and returns False.
SwitchFailed(d) ==
    /\ d \in DOMAIN tc.dials
    /\ tc.dials[d] \in {"dialing", "closed"}
    /\ tc' = [tc EXCEPT !.dials[d] = "done",
                        !.dialing = IF @ = d THEN 0 ELSE @]
    /\ UNCHANGED << cx, proc, started, running, clients, conn, pools, socks, now >>

SwitchNext ==
    \/ ServerStart
    \/ ClientStart
    \/ \E t \in 1..MaxServers : SwitchBegin(t)
    \/ \E d \in 1..MaxSwitches : SwitchConnected(d)
    \/ \E d \in 1..MaxSwitches : SwitchFailed(d)
    \/ \E c \in DOMAIN conn : HandleClientConnection(c)
    \/ \E c \in DOMAIN conn : HandleClient(c)
    \/ Tick

SpecSwitch == LinkInit /\ [][SwitchNext]_vars

\* The client's stream connections to a relay that the client has not closed.
ActiveLinks == {c \in DOMAIN conn : conn[c].kind = "tunnel" /\ ~conn[c].eof}

\* C18: the client never has two open tunnel links, because every
\* switch_server call closes the link it finds before it connects anew.
C18_OneLink ==
    [][/\ Cardinality(ActiveLinks') <= 1
       /\ (tc'.switches # tc.switches /\ tc.link # 0)
             => (conn'[tc.link].eof /\ Len(conn') = Len(conn))]_vars

C18_Witness ==
    /\ tc.switches = 2 /\ tc.link = 3
    /\ conn[1].eof /\ conn[2].eof /\ ~conn[3].eof
    /\ \A c \in DOMAIN conn : conn[c].kind = "tunnel"

\* ------------------------------------------------------------------------
\* Session ids: peers that connect again from the address they used before.
\* ------------------------------------------------------------------------

ReuseNext ==
    \/ ServerStart
    \/ PeerConnect
    \/ \E c \in DOMAIN conn : PeerReconnect(c)
    \/ \E c \in DOMAIN conn : HandleClientConnection(c)
    \/ \E c \in DOMAIN conn : \E chunk \in KeepaliveChunks : PeerData(c, chunk)
    \/ \E c \in DOMAIN conn : PeerClose(c)
    \/ \E c \in DOMAIN conn : HandleClient(c)
    \/ Tick

SpecReuse == RelayInit /\ [][ReuseNext]_vars

\* C19: a step that registers a newly accepted session finds its id absent
\* from the registry, so that it replaces no session's entry and every
\* registered session keeps its entry.
C19_UniqueIds ==
    [][\A c \in DOMAIN conn :
          (conn[c].pc = "pending" /\ conn'[c].pc = "read")
             => /\ client_id(conn', c) \notin DOMAIN clients
                /\ Registered \subseteq Registered']_vars

\* ------------------------------------------------------------------------
\* The two senders on the tunnel socket: each calls tunnel_socket.send in a
\* thread of the default executor.
\* ------------------------------------------------------------------------

\* _handle_local_traffic from the return of recvfrom to the send it hands to
\* the executor.
LocalSendBegin ==
    /\ tc.running /\ tc.connected /\ tc.local = "wait"
    /\ tc.link # 0
    /\ ~tc.writes["local"].busy
    /\ tc.localq # << >>
    /\ LET dgram  == Head(tc.localq)
           data   == Slice(dgram.data, 0, recv_size)
           packet == Client_create_tunnel_packet(data, dgram.addr)
       IN  tc' = IF data # << >>
                 THEN [tc EXCEPT !.localq = Tail(@),
                                 !.writes["local"] = [busy |-> TRUE, rest |-> packet]]
                 ELSE [tc EXCEPT !.localq = Tail(@)]
    /\ UNCHANGED << cx, proc, started, running, clients, conn, pools, socks, now >>

\* _monitor_connection from the loop test to the send it hands to the
\* executor.
MonitorSendBegin ==
    /\ tc.running /\ tc.connected /\ tc.monitor = "wait"
    /\ tc.link # 0
    /\ ~tc.writes["monitor"].busy
    /\ tc.beats < MaxBeats
    /\ tc' = [tc EXCEPT !.beats = @ + 1,
                        !.writes["monitor"] = [busy |-> TRUE, rest |-> HEARTBEAT]]
    /\ UNCHANGED << cx, proc, started, running, clients, conn, pools, socks, now >>

\* The kernel takes the first k bytes of the send of loop w into the
\* connection's send buffer. Taking less than all of them (the buffer is
\* full, the thread waits inside send) is counted against MaxSplits; taking
\* the last byte lets send return. After its send the monitor goes on to
\* ping_host, which opens a connection to the relay and closes it.
SendTakes(w) ==
    /\ tc.writes[w].busy
    /\ \E k \in 1..Len(tc.writes[w].rest) :
          LET rest == tc.writes[w].rest
              cn1  == [conn EXCEPT ![tc.link].flight = @ \o Slice(rest, 0, k)]
          IN  /\ k < Len(rest) => tc.splits < MaxSplits
              /\ tc' = [tc EXCEPT !.splits = IF k < Len(rest) THEN @ + 1 ELSE @,
                                  !.writes[w] = [busy |-> k < Len(rest),
                                                 rest |-> Slice(rest, k, Len(rest))]]
              /\ conn' = IF w = "monitor" /\ k = Len(rest) /\ Len(conn) < MaxAccepts
                         THEN Append(cn1, [NewConn("ping", Len(conn) + 1) EXCEPT !.eof = TRUE])
                         ELSE cn1
    /\ UNCHANGED << cx, proc, started, running, clients, pools, socks, now >>

WriteNext ==
    \/ ServerStart
    \/ ClientStart
    \/ \E src \in LocalSenders : \E dst \in Destinations : \E data \in AppPayloads :
          LocalAppSend(src, dst, data)
    \/ LocalSendBegin
    \/ MonitorSendBegin
    \/ \E w \in {"local", "monitor"} : SendTakes(w)

SpecWrite == LinkInit /\ [][WriteNext]_vars

\* The envelopes the local-to-tunnel loop has been given to send.
SentEnvelopes == {Client_create_tunnel_packet(q.data, q.src) : q \in tc.sent}

IsPrefix(a, b) == Len(a) <= Len(b) /\ Slice(b, 0, Len(a)) = a

RECURSIVE Serialized(_)
\* b is a sequence of whole writes (envelopes and keepalives), the last of
\* which may still be under way.
Serialized(b) ==
    \/ \E m \in SentEnvelopes \cup {HEARTBEAT} : IsPrefix(b, m)
    \/ \E m \in SentEnvelopes \cup {HEARTBEAT} :
          /\ Len(m) < Len(b)
          /\ IsPrefix(m, b)
          /\ Serialized(Slice(b, Len(m), Len(b)))

\* C21: the envelope send and the keepalive send are never inside
\* tunnel_socket.send at the same time, and the bytes the client has put on
\* the link are whole envelopes and whole keepalives one after the other.
C21_WritesSerialized ==
    /\ ~(tc.writes["local"].busy /\ tc.writes["monitor"].busy)
    /\ tc.link # 0 => Serialized(conn[tc.link].flight)

\* ------------------------------------------------------------------------
\* The traffic loops across a switch_server call. start() created the three
\* loops; switch_server neither cancels nor creates a task.
\* ------------------------------------------------------------------------

\* _monitor_connection wakes from its sleep while a switch is under way:
\* "while self.running and self.connected" fails and the loop returns.
MonitorExit ==
    /\ tc.phase = "started" /\ tc.monitor = "wait"
    /\ ~(tc.running /\ tc.connected)
    /\ tc' = [tc EXCEPT !.monitor = "done"]
    /\ UNCHANGED << cx, proc, started, running, clients, conn, pools, socks, now >>

\* _handle_local_traffic gets a datagram while tunnel_socket is a socket that
\* is closed or not connected yet: send raises, the except clause breaks.
LocalLoopBreaks ==
    /\ tc.phase = "started" /\ tc.local = "wait"
    /\ tc.link = 0
    /\ tc.localq # << >>
    /\ tc' = [tc EXCEPT !.localq = Tail(@), !.local = "done"]
    /\ UNCHANGED << cx, proc, started, running, clients, conn, pools, socks, now >>

\* _handle_tunnel_traffic waits in recv on the socket switch_server closed:
\* recv raises (or returns b""), the loop breaks.
TunnelLoopBreaks ==
    /\ tc.phase = "started" /\ tc.tunnel = "wait"
    /\ tc.switches > 0
    /\ tc' = [tc EXCEPT !.tunnel = "done"]
    /\ UNCHANGED << cx, proc, started, running, clients, conn, pools, socks, now >>

LoopsNext ==
    \/ ServerStart
    \/ ClientStart
    \/ \E t \in 1..MaxServers : SwitchBegin(t)
    \/ \E d \in 1..MaxSwitches : SwitchConnected(d)
    \/ \E d \in 1..MaxSwitches : SwitchFailed(d)
    \/ \E src \in LocalSenders : \E dst \in Destinations : \E data \in AppPayloads :
          LocalAppSend(src, dst, data)
    \/ tc.link # 0 /\ HandleLocalTraffic
    \/ LocalLoopBreaks
    \/ MonitorConnection
    \/ MonitorExit
    \/ TunnelLoopBreaks

SpecLoops == LinkInit /\ [][LoopsNext]_vars

LoopsRunning(t) == t.local = "wait" /\ t.tunnel = "wait" /\ t.monitor = "wait"

LoopsEnded(t) == t.local = "done" /\ t.tunnel = "done" /\ t.monitor = "done"

\* C23: a switch_server call ends the three loops of the old link before it
\* connects, and when it returns True the three loops are running on the
\* new link.
C23_LoopsFollowSwitch ==
    [][/\ (tc'.switches # tc.switches /\ LoopsRunning(tc)) => LoopsEnded(tc')
       /\ (tc.link = 0 /\ tc'.link # 0 /\ tc.switches > 0) => LoopsRunning(tc')]_vars

\* ------------------------------------------------------------------------
\* One session's requests and the replies written to it.
\* ------------------------------------------------------------------------
MaxNumbered == 3        \* numbered datagrams the local applications send in one run

\* A local application sends its next datagram to the proxy port; the
\* datagrams of a run carry their number, 1, 2, 3, as payload.
LocalAppSendNumbered(src, dst) ==
    /\ tc.phase = "started"
    /\ tc.sends < MaxNumbered
    /\ tc' = [tc EXCEPT !.sends = @ + 1,
                        !.localq = Append(@, [data |-> << tc.sends + 1 >>, addr |-> src]),
                        !.sent = @ \cup {[src |-> src, dst |-> dst,
                                          data |-> << tc.sends + 1 >>]}]
    /\ UNCHANGED << cx, proc, started, running, clients, conn, pools, socks, now >>

OrderNext ==
    \/ ServerStart
    \/ ClientStart
    \/ \E c \in DOMAIN conn : HandleClientConnection(c)
    \/ \E src \in LocalSenders : \E dst \in Destinations : LocalAppSendNumbered(src, dst)
    \/ HandleLocalTraffic
    \/ NetToRelay
    \/ \E c \in DOMAIN conn : HandleClient(c)
    \/ \E c \in DOMAIN conn : ForwardConnectOk(c)
    \/ \E c \in DOMAIN conn : ForwardRecv(c)
    \/ \E c \in DOMAIN conn : ForwardTimeout(c)
    \/ \E g \in DOMAIN socks : ZombieRecv(g)
    \/ \E g \in DOMAIN socks : GameServerReply(g, FALSE)

SpecOrder == LinkInit /\ [][OrderNext]_vars

RECURSIVE ReplyPayloads(_)
\* The payloads of the envelopes in b, in the order they were written.
ReplyPayloads(b) ==
    IF b = << >> THEN << >>
    ELSE LET res == Server_parse_tunnel_packet(b)
             n   == Len(Server_create_tunnel_packet(res.data, res.addr))
         IN  IF ~res.ok \/ n = 0 THEN << >>
             ELSE << res.data >> \o ReplyPayloads(Slice(b, n, Len(b)))

\* The requests whose answers were written appear in the order in which the
\* session was sent them.
InRequestOrder(replies) ==
    \A i, j \in DOMAIN replies : i < j => Pong(replies[i])[1] < Pong(replies[j])[1]

\* C24: a session reads only while none of its packets is being forwarded,
\* writes a reply only from the forward it is waiting in, and the replies
\* written to it are in the order of the requests that produced them.
C24_OneAtATime ==
    /\ [][\A c \in DOMAIN conn :
            /\ Len(conn'[c].inq) < Len(conn[c].inq)
                  => conn[c].pc = "read" /\ conn[c].pkt = NoPkt
            /\ (conn'[c].out # conn[c].out /\ conn[c].pc # "read")
                  => conn[c].pc = "recv"]_vars
    /\ [](tc.link # 0 => InRequestOrder(ReplyPayloads(conn[tc.link].out)))

\* ------------------------------------------------------------------------
\* The end of a session. The event loop runs every task that is ready: the
\* callback of an accepted connection, and a session whose read returned.
\* ------------------------------------------------------------------------
SessionStep(c) ==
    /\ c \in DOMAIN conn
    /\ HandleClientConnection(c) \/ HandleClient(c)

SpecRegistryFair == SpecRegistry /\ \A c \in 1..MaxAccepts : WF_vars(SessionStep(c))

\* Session c's loop has returned, or c was turned away at capacity.
SessionOver(c) == conn[c].pc \in {"done", "rejected"}

C26_RemovalIdempotent ==
    [][\A c \in DOMAIN conn :
          (/\ conn[c].pc = "read" /\ conn'[c].pc = "done"
           /\ client_id(conn, c) \notin DOMAIN clients)
          => /\ clients' = clients
             /\ \A d \in DOMAIN conn \ {c} : conn'[d] = conn[d]
             /\ conn'[c].wclosed = conn[c].wclosed]_vars

\* The sweep removed a session, later its own loop returned and removed it
\* again, while another session is registered.
C26_Witness ==
    /\ running
    /\ \E c \in DOMAIN conn :
          /\ conn[c].reaped /\ conn[c].pc = "done"
          /\ \E d \in Registered : d # c

\* ------------------------------------------------------------------------
\* A connect to the selected relay that fails.
\* ------------------------------------------------------------------------

\* A candidate other than the current one that the probes found reachable.
OtherCandidates(t) ==
    {i \in DOMAIN t.servers : i # t.current_server /\ Available(t.servers[i].latency)}

\* C27: when start() cannot connect to the selected relay the error reaches
\* the caller (the client is not connected and has no link), and if another
\* candidate was found reachable the client has moved to another candidate.
C27_ReselectOnConnectError ==
    [][(tc.phase = "ready" /\ tc'.phase = "failed")
          => /\ ~tc'.connected /\ tc'.link = 0
             /\ OtherCandidates(tc) # {} => tc'.current_server # tc.current_server]_vars

\* ------------------------------------------------------------------------
\* A link the relay has closed: the relay turns a connection away when its
\* registry is full.
\* ------------------------------------------------------------------------

\* One round of _monitor_connection on a link the relay has closed:
\* tunnel_socket.send raises, the except clause breaks.
MonitorSendFails ==
    /\ tc.running /\ tc.connected /\ tc.monitor = "wait"
    /\ tc.link # 0
    /\ conn[tc.link].wclosed
    /\ tc' = [tc EXCEPT !.monitor = "done"]
    /\ UNCHANGED << cx, proc, started, running, clients, conn, pools, socks, now >>

FailNext ==
    \/ ServerStart
    \/ PeerConnect
    \/ \E c \in DOMAIN conn : HandleClientConnection(c)
    \/ ClientStart
    \/ \E src \in LocalSenders : \E dst \in Destinations : \E data \in AppPayloads :
          LocalAppSend(src, dst, data)
    \/ HandleLocalTraffic
    \/ MonitorConnection
    \/ MonitorSendFails
    \/ HandleTunnelTraffic

SpecFail == LinkInit /\ [][FailNext]_vars

\* A send on the link raised in this step, in the local-to-tunnel loop or in
\* the keepalive sender.
LinkSendError ==
    /\ tc.link # 0
    /\ conn[tc.link].wclosed
    /\ \/ tc.local = "wait" /\ tc'.local = "done"
       \/ tc.monitor = "wait" /\ tc'.monitor = "done"

\* C28: a send error on the link ends the three loops of the link.
C28_LinkErrorEndsLoops ==
    [][LinkSendError => LoopsEnded(tc')]_vars

\* ------------------------------------------------------------------------
\* Buffers that do not decode.
\* ------------------------------------------------------------------------

\* C29: a buffer whose decode fails is dropped and its loop goes on. On the
\* client nothing is handed to local_socket.sendto and the tunnel-to-local
\* loop stays as it was; on the relay no destination is contacted, nothing is
\* written to the session, and the session, if registered while the relay
\* runs, stays registered and is back at its read.
C29_BadPacketDropped ==
    [][/\ (/\ tc.link # 0
           /\ Len(conn'[tc.link].rxq) < Len(conn[tc.link].rxq)
           /\ ~Client_parse_tunnel_packet(Slice(conn[tc.link].rxq, 0, recv_size)).ok)
          => /\ tc'.delivered = tc.delivered
             /\ tc'.tunnel = "wait"
       /\ \A c \in DOMAIN conn :
            (/\ Len(conn'[c].inq) < Len(conn[c].inq)
             /\ Slice(conn[c].inq, 0, buffer_size) # HEARTBEAT
             /\ ~Server_parse_tunnel_packet(Slice(conn[c].inq, 0, buffer_size)).ok)
            => /\ socks' = socks /\ pools' = pools
               /\ conn'[c].out = conn[c].out
               /\ ~conn'[c].wclosed
               /\ (running /\ client_id(conn, c) \in DOMAIN clients)
                     => /\ conn'[c].pc = "read"
                        /\ client_id(conn, c) \in DOMAIN clients'
                        /\ clients'[client_id(conn, c)] = c]_vars

\* The client sent one envelope and one keepalive and the network split the
\* stream once; the relay has read all of it and contacted no destination,
\* so that it dropped a buffer; both loops go on.
C29_Witness ==
    /\ tc.link # 0
    /\ tc.sends = 1 /\ tc.beats = 1 /\ tc.splits = 1
    /\ tc.localq = << >>
    /\ conn[tc.link].flight = << >> /\ conn[tc.link].inq = << >>
    /\ conn[tc.link].out = << >> /\ conn[tc.link].rxq = << >>
    /\ socks = << >>
    /\ conn[tc.link].pc = "read" /\ tc.link \in Registered
    /\ tc.tunnel = "wait" /\ tc.delivered = {}

\* C30: the step in which one session's loop returns (its peer disconnected
\* or its connection failed) removes that session alone: every other
\* session keeps its registry entry and its connection record, and the
\* relay goes on listening.
C30_OnlyThatSession ==
    [][\A c \in DOMAIN conn :
          (conn[c].pc = "read" /\ conn'[c].pc = "done")
             => /\ \A d \in DOMAIN conn \ {c} :
                      /\ conn'[d] = conn[d]
                      /\ d \in Registered => d \in Registered'
                /\ started' /\ running' = running]_vars

\* ------------------------------------------------------------------------
\* The default executor. run_in_executor(None, ...) hands connect, send and
\* recv to a pool of threads; a recv whose asyncio.wait_for timed out keeps
\* its thread until the destination sends or closes.
\* ------------------------------------------------------------------------
MaxWorkers == 1         \* threads of the default executor (min(32, cpu_count + 4))

RECURSIVE ZombieThreads(_, _)
\* Threads blocked in the recv of a forward that has timed out.
ZombieThreads(sks, g) ==
    IF g > Len(sks) THEN 0 ELSE sks[g].zombies + ZombieThreads(sks, g + 1)

\* Threads in use: the left-behind ones, and one for every session that
\* awaits its connect or its recv.
BusyThreads ==
    ZombieThreads(socks, 1) + Cardinality({c \in DOMAIN conn : conn[c].pc \in {"connect", "recv"}})

ExecutorKeys == PeerKeys \cup {[host |-> << 104 >>, port |-> 7]}

ExecutorChunks == {Client_create_tunnel_packet(<< 112, 105 >>, k) : k \in ExecutorKeys}

\* One iteration of _handle_client's loop when a thread is free for the
\* forward it may start.
HandleClientThreadFree(c) ==
    /\ HandleClient(c)
    /\ conn'[c].pc \in {"connect", "recv"} => BusyThreads < MaxWorkers

\* One iteration of _handle_client's loop that reaches run_in_executor while
\* every thread is in use: the connect (or the send) is queued in the
\* executor, and the session awaits it with no timeout.
ForwardQueued(c) ==
    /\ conn[c].pc = "read"
    /\ conn[c].inq # << >>
    /\ BusyThreads >= MaxWorkers
    /\ LET data == Slice(conn[c].inq, 0, buffer_size)
           res  == Server_parse_tunnel_packet(data)
           cn1  == [conn EXCEPT ![c].inq = Slice(@, buffer_size, Len(@)),
                                ![c].last_activity = now]
       IN  /\ data # HEARTBEAT
           /\ ~Falsy(res)
           /\ LET key    == FormatAddr(res.addr)
                  pkt    == [data |-> res.data, addr |-> res.addr]
                  pools1 == IF key \in DOMAIN pools THEN pools ELSE MapPut(pools, key, {})
              IN  \E o \in ScanPool(pools1[key], socks) :
                     LET sks1 == CloseAll(socks, o.evict)
                     IN  /\ pools' = [pools1 EXCEPT ![key] = @ \ o.evict]
                         /\ IF o.hit # 0
                            THEN /\ socks' = sks1
                                 /\ conn' = [cn1 EXCEPT ![c].pc = "queued", ![c].pkt = pkt,
                                                        ![c].gsock = o.hit]
                            ELSE /\ Len(socks) < MaxSocks
                                 /\ socks' = Append(sks1, NewSock(key))
                                 /\ conn' = [cn1 EXCEPT ![c].pc = "queued", ![c].pkt = pkt,
                                                        ![c].gsock = Len(socks) + 1,
                                                        ![c].poolAlive = TRUE]
    /\ UNCHANGED << cx, proc, tc, started, running, clients, now >>

\* A thread has become free and takes the queued call: the connect starts,
\* or the send runs and the recv is awaited.
ForwardDequeued(c) ==
    /\ conn[c].pc = "queued"
    /\ BusyThreads < MaxWorkers
    /\ IF socks[conn[c].gsock].st = "connecting"
       THEN /\ conn' = [conn EXCEPT ![c].pc = "connect"]
            /\ UNCHANGED << clients, socks >>
       ELSE SendRequest(c, conn, clients, socks, conn[c].gsock, conn[c].pkt)
    /\ UNCHANGED << cx, proc, tc, started, running, pools, now >>

ExecutorNext ==
    \/ ServerStart
    \/ PeerConnect
    \/ \E c \in DOMAIN conn : HandleClientConnection(c)
    \/ \E c \in DOMAIN conn : \E chunk \in ExecutorChunks : PeerData(c, chunk)
    \/ \E c \in DOMAIN conn : HandleClientThreadFree(c)
    \/ \E c \in DOMAIN conn : ForwardQueued(c)
    \/ \E c \in DOMAIN conn : ForwardDequeued(c)
    \/ \E c \in DOMAIN conn : ForwardConnectOk(c)
    \/ \E c \in DOMAIN conn : ForwardRecv(c)
    \/ \E c \in DOMAIN conn : ForwardTimeout(c)
    \/ \E g \in DOMAIN socks : ZombieRecv(g)
    \/ \E g \in DOMAIN socks : GameServerReply(g, FALSE)

SpecExecutor == RelayInit /\ [][ExecutorNext]_vars

\* C31: the forwards that have timed out never keep another session's
\* packet from being forwarded: no session waits for an executor thread
\* while every thread is held by the recv of a timed-out forward.
C31_NoStarvation ==
    \A c \in DOMAIN conn :
        conn[c].pc = "queued" => ZombieThreads(socks, 1) < MaxWorkers

\* ------------------------------------------------------------------------
\* run_client's command line: --server-host and --server-port
\* (src/main.py, run_client).
\* ------------------------------------------------------------------------

MaxCatalog == 2         \* entries of config['servers']
DefaultServerPort == 8080
CliHosts == {1, 2}
CliPorts == {DefaultServerPort, 9000}
CliEntries == [host : CliHosts, port : CliPorts]

\* args.server_port or 8080: a port that was not given, or 0, is 8080.
ServerPortOr(port) == IF port = 0 THEN DefaultServerPort ELSE port

\* The first entry of the catalog, from position i on, with that host:
\* next((s for s in client.servers if s.host == args.server_host), None);
\* 0 is None.
RECURSIVE TargetServer(_, _, _)
TargetServer(servers, host, i) ==
    IF i > Len(servers) THEN 0
    ELSE IF servers[i].host = host THEN i
    ELSE TargetServer(servers, host, i + 1)

\* main() has parsed the arguments of a client; 0 is an option not given.
CliInit ==
    /\ CodecIdle /\ ServerConstructed /\ ClientConstructed
    /\ \E servers \in SeqsUpTo(CliEntries, MaxCatalog),
          host \in CliHosts \cup {0}, port \in CliPorts \cup {0} :
          proc = [mode |-> "client", state |-> "running", code |-> -1, error |-> FALSE,
                  cli |-> [NoCli EXCEPT !.phase = "args", !.servers = servers,
                                        !.server_host = host, !.server_port = port]]

\* run_client up to the construction of TunnelClient: a server named on the
\* command line that the configuration does not hold, host and port alike,
\* is appended to it.
CliAddServer ==
    /\ proc.cli.phase = "args"
    /\ LET cli == proc.cli
           entry == [host |-> cli.server_host, port |-> ServerPortOr(cli.server_port)]
           found == \E i \in DOMAIN cli.servers : cli.servers[i] = entry
       IN  proc' = [proc EXCEPT !.cli.phase = "config",
                                !.cli.servers = IF cli.server_host # 0 /\ ~found
                                                THEN Append(@, entry) ELSE @]
    /\ UNCHANGED << cx, started, running, clients, conn, pools, socks, now, tc >>

\* client.initialize(): the latency probes choose any candidate that
\* answered, or raise when none did.
CliInitialize ==
    /\ proc.cli.phase = "config"
    /\ \/ \E i \in DOMAIN proc.cli.servers :
              proc' = [proc EXCEPT !.cli.phase = "initialized", !.cli.current = i]
       \/ proc' = [proc EXCEPT !.cli.phase = "failed", !.state = "exited", !.code = 1]
    /\ UNCHANGED << cx, started, running, clients, conn, pools, socks, now, tc >>

\* The override after initialize: the first candidate with the host of the
\* command line becomes current_server.
CliOverride ==
    /\ proc.cli.phase = "initialized"
    /\ LET cli == proc.cli
           target_server == TargetServer(cli.servers, cli.server_host, 1)
       IN  proc' = [proc EXCEPT !.cli.phase = "forced",
                                !.cli.current = IF cli.server_host # 0 /\ target_server # 0
                                                THEN target_server ELSE @]
    /\ UNCHANGED << cx, started, running, clients, conn, pools, socks, now, tc >>

\* client.start(): _connect_to_server connects to current_server.
CliStart ==
    /\ proc.cli.phase = "forced"
    /\ proc' = [proc EXCEPT !.cli.phase = "connected",
                            !.cli.endpoint = proc.cli.servers[proc.cli.current]]
    /\ UNCHANGED << cx, started, running, clients, conn, pools, socks, now, tc >>

CliNext == CliAddServer \/ CliInitialize \/ CliOverride \/ CliStart

SpecCli == CliInit /\ [][CliNext]_vars

\* C32: with --server-host H and --server-port P the client connects to the
\* candidate with host H and port P.
C32_ForcedEndpoint ==
    (proc.cli.phase = "connected" /\ proc.cli.server_host # 0 /\ proc.cli.server_port # 0)
        => proc.cli.endpoint = [host |-> proc.cli.server_host, port |-> proc.cli.server_port]

\* ------------------------------------------------------------------------
\* Sessions that forward to one destination at the same time: the cached
\* connection is shared, each forward waits in its own recv on it.
\* ------------------------------------------------------------------------

\* Each session sends a payload of its own to the one destination.
SharedChunk(c) == Client_create_tunnel_packet(<< 112, c >>, [host |-> << 103 >>, port |-> 7])

\* The destination answers every request within the 5 s of the forward.
SharedNext ==
    \/ ServerStart
    \/ PeerConnect
    \/ \E c \in DOMAIN conn : HandleClientConnection(c)
    \/ \E c \in DOMAIN conn : PeerData(c, SharedChunk(c))
    \/ \E c \in DOMAIN conn : HandleClient(c)
    \/ \E c \in DOMAIN conn : ForwardConnectOk(c)
    \/ \E c \in DOMAIN conn : ForwardRecv(c)
    \/ \E g \in DOMAIN socks : GameServerReply(g, FALSE)

SpecShared == RelayInit /\ [][SharedNext]_vars

\* C33: the reply a session writes back is the destination's answer to the
\* packet that session forwarded, also when another session forwards to the
\* same destination at the same time.
C33_OwnReplyOnly ==
    [][\A c \in DOMAIN conn :
          (ForwardRecv(c) /\ socks[conn[c].gsock].rx # << >>)
              => Slice(socks[conn[c].gsock].rx, 0, buffer_size) = Pong(conn[c].pkt.data)]_vars

\* ------------------------------------------------------------------------
\* Sessions removed from the registry whose peers go on sending.
\* ------------------------------------------------------------------------

\* Session c's task waits in reader.read and the registry no longer holds
\* the session (a sweep removed it, or stop() cleared the registry).
Removed(c) == conn[c].pc = "read" /\ c \notin Registered

\* The peers are silent while their sessions are registered and send once
\* the sessions were removed.
RemovedNext ==
    \/ ServerStart
    \/ PeerConnect
    \/ \E c \in DOMAIN conn : HandleClientConnection(c)
    \/ \E c \in DOMAIN conn : \E chunk \in KeepaliveChunks \cup EnvelopeChunks :
          Removed(c) /\ PeerData(c, chunk)
    \/ \E c \in DOMAIN conn : HandleClient(c)
    \/ \E c \in DOMAIN conn : ForwardConnectOk(c)
    \/ \E c \in DOMAIN conn : ForwardRecv(c)
    \/ \E g \in DOMAIN socks : GameServerReply(g, FALSE)
    \/ CleanupInactiveClients
    \/ Tick
    \/ ServerStop

SpecRemoved == RelayInit /\ [][RemovedNext]_vars

\* What the relay does with the bytes of one read: the keepalive is
\* answered, an envelope that parses is forwarded.
Handled(data) == data = HEARTBEAT \/ ~Falsy(Server_parse_tunnel_packet(data))

\* C34: what a session reads after it was removed from the registry is
\* neither answered nor forwarded.
C34_RemovedIsSilent ==
    [][\A c \in DOMAIN conn :
          (Removed(c) /\ conn[c].inq # << >> /\ HandleClient(c))
              => ~Handled(Slice(conn[c].inq, 0, buffer_size))]_vars

\* The accepted connections whose _handle_client loop has not returned.
ReceiveLoops == {c \in DOMAIN conn : conn[c].pc \in {"read", "connect", "recv", "queued"}}

\* C35: at most max_connections accepted connections have a receive loop
\* that is still running, whether the registry holds them or not.
C35_LoopsBounded == Cardinality(ReceiveLoops) <= max_connections

\* A loop of the client has ended: a send on the link raised, or recv on it
\* returned b"" or raised.
LinkErrorSeen == tc.local = "done" \/ tc.tunnel = "done" \/ tc.monitor = "done"

\* C36: when connected is True the tunnel socket is an open connection to
\* the relay: in particular connected is not True any more once a send or
\* a receive on the link has failed.
C36_ConnectedMeansOpen ==
    tc.connected =>
        /\ tc.link # 0
        /\ ~conn[tc.link].eof
        /\ LinkErrorSeen => ~conn[tc.link].wclosed

\* ------------------------------------------------------------------------
\* Sessions kept alive by keepalives.
\* ------------------------------------------------------------------------

KeepaliveTick == 200    \* seconds between two looks at the clock, below the threshold

TickBy ==
    /\ now + KeepaliveTick <= MaxTime
    /\ now' = now + KeepaliveTick
    /\ UNCHANGED << cx, proc, tc, started, running, clients, conn, pools, socks >>

KeepaliveNext ==
    \/ ServerStart
    \/ PeerConnect
    \/ \E c \in DOMAIN conn : HandleClientConnection(c)
    \/ \E c \in DOMAIN conn : \E chunk \in KeepaliveChunks : PeerData(c, chunk)
    \/ \E c \in DOMAIN conn : HandleClient(c)
    \/ CleanupInactiveClients
    \/ TickBy

SpecKeepalive == RelayInit /\ [][KeepaliveNext]_vars

\* C37: every keepalive a session reads sets its last activity to the time
\* of the read and leaves the session registered, and a sweep keeps every
\* session whose last activity is less than the threshold ago: a session
\* whose keepalives are read at intervals shorter than the threshold is
\* never reaped.
C37_KeepalivesKeepSession ==
    /\ [][\A c \in Registered :
            (HandleClient(c) /\ Slice(conn[c].inq, 0, buffer_size) = HEARTBEAT)
                => (conn'[c].last_activity = now /\ c \in Registered')]_vars
    /\ [][\A c \in Registered :
            (CleanupInactiveClients /\ now - conn[c].last_activity < timeout)
                => c \in Registered']_vars

\* The sweep at time 600 reaped a session last heard of at 200 and kept a
\* session accepted at 0 whose last keepalive was read at 400.
C37_Witness ==
    /\ now = 600
    /\ \E c \in Registered :
          conn[c].connected_time = 0 /\ conn[c].last_activity = 400
    /\ \E d \in DOMAIN conn : conn[d].reaped /\ conn[d].last_activity = 200

\* ------------------------------------------------------------------------
\* Keepalive-acks at the client.
\* ------------------------------------------------------------------------

\* The byte values of b"HEARTBEAT_ACK"; no payload of a local application
\* and no reply of a destination holds one of them.
AckBytes == Range(HEARTBEAT_ACK)

\* C38: a keepalive-ack that arrives at the client is not handed to
\* local_socket.sendto, in whole or in part, and a buffer made of
\* keepalive-ack bytes leaves the delivered datagrams (and with them the
\* received-packet statistics) and the tunnel-to-local loop as they were.
C38_AckNotGameData ==
    /\ [](\A d \in tc.delivered : Range(d.data) \cap AckBytes = {})
    /\ [][(/\ tc.link # 0
           /\ Len(conn'[tc.link].rxq) < Len(conn[tc.link].rxq)
           /\ IsAckPart(Slice(conn[tc.link].rxq, 0, recv_size)))
          => (tc'.delivered = tc.delivered /\ tc'.tunnel = "wait")]_vars

\* ------------------------------------------------------------------------
\* The relay after stop().
\* ------------------------------------------------------------------------

\* stop() has returned.
Stopped == started /\ ~running

\* C39: once stop() has returned the registry and the destination cache are
\* empty and stay so, the connection of every session whose loop has not
\* returned is closed, no cached destination connection is open, and no
\* session sends a packet to a destination or opens a connection to one.
C39_StopIsFinal ==
    /\ [](Stopped =>
            /\ clients = EmptyMap
            /\ pools = EmptyMap
            /\ \A c \in ReceiveLoops : conn[c].wclosed)
    /\ [][ServerStop =>
            \A k \in DOMAIN pools : \A g \in pools[k] : socks'[g].st = "closed"]_vars
    /\ [][Stopped =>
            /\ Len(socks') = Len(socks)
            /\ \A g \in DOMAIN socks : Len(socks'[g].pend) <= Len(socks[g].pend)]_vars

\* ------------------------------------------------------------------------
\* Envelopes with an empty payload.
\* ------------------------------------------------------------------------

\* An envelope whose dataLen is 0, for the destination of PeerKeys.
EmptyChunks == {Client_create_tunnel_packet(<< >>, k) : k \in PeerKeys}

EmptyNext ==
    \/ ServerStart
    \/ PeerConnect
    \/ \E c \in DOMAIN conn : HandleClientConnection(c)
    \/ \E c \in DOMAIN conn : \E chunk \in EmptyChunks \cup EnvelopeChunks : PeerData(c, chunk)
    \/ \E c \in DOMAIN conn : PeerClose(c)
    \/ \E c \in DOMAIN conn : HandleClient(c)
    \/ \E c \in DOMAIN conn : ForwardConnectOk(c)
    \/ \E c \in DOMAIN conn : ForwardRecv(c)
    \/ \E g \in DOMAIN socks : GameServerReply(g, FALSE)

SpecEmpty == RelayInit /\ [][EmptyNext]_vars

\* C40: a session that reads a whole envelope whose payload is empty
\* forwards it as it forwards any other envelope: the step ends in the
\* connect to the destination or in the wait for its reply.
C40_EmptyPayloadForwarded ==
    [][\A c \in Registered :
          (HandleClient(c) /\ Slice(conn[c].inq, 0, buffer_size) \in EmptyChunks)
              => conn'[c].pc \in {"connect", "recv"}]_vars

====
